---- MODULE Spec2Model ----
(***************************************************************************)
(* A model of scot: the chunk store (db.py), the incremental indexer       *)
(* (indexer.py), the BM25 index and rank fusion (bm25.py), the search      *)
(* path with its per-repository BM25 cache (search.py) and the daemon's    *)
(* accept-and-handle loop (daemon.py).                                     *)
(***************************************************************************)
EXTENDS Integers, Sequences, FiniteSets, TLC

VARIABLES
    tracked,     \* git index: repo -> set of tracked paths (git ls-files)
    disk,        \* working tree: repo -> path -> [exists, mtime, content]
    repos,       \* table repos: sequence of abs_path, the row id is the position
    chunks,      \* table chunks, committed rows
    bm25_cache,  \* Daemon.bm25_cache: a function on the cached repo keys
    dpc,         \* position of the daemon process in Daemon._run
    running,     \* Daemon.running
    pid_file,    \* PID_FILE exists
    socket_file, \* SOCKET_PATH exists
    backlog,     \* connections waiting in the listen backlog
    conn,        \* the accepted connections that are not closed, oldest first; the
                 \* log of one holds its exchange and the tables as they were before
    signalled,   \* a shutdown signal was delivered after the handlers were installed
    changes,     \* working-tree and git-index changes made so far
    pass,        \* one index_repo pass run statement by statement
    rrf,         \* reciprocal_rank_fusion applied to drawn rankings
    srch,        \* the ranking part of search applied to drawn chunk lists
    bm,          \* tokenize and BM25Index applied to drawn texts
    chk,         \* the chunker applied to drawn contents
    cli          \* the client side: send_request, ensure_daemon_running, displayed results

vars == <<tracked, disk, repos, chunks, bm25_cache, dpc, running, pid_file,
          socket_file, backlog, conn, signalled, changes, pass, rrf, srch,
          bm, chk, cli>>

None == "None"

(***************************************************************************)
(* Bounds of the model.                                                    *)
(***************************************************************************)
MaxMtime == 2      \* modification times are 1..MaxMtime
MaxRowid == 4      \* requests are only issued while rowids stay within it
MaxBacklog == 1    \* connections waiting in the backlog
MaxChanges == 1    \* working-tree and git-index changes per behaviour
MaxDoc == 2        \* the documents of a drawn ranking are 0..MaxDoc
MaxRankings == 2   \* rankings handed to reciprocal_rank_fusion
MaxChunks == 5     \* chunks of a drawn chunk list
MaxTopK == 2       \* the top_k of a drawn search is -1..MaxTopK

(***************************************************************************)
(* Generic helpers on sequences, with Python's semantics where they model  *)
(* Python.                                                                 *)
(***************************************************************************)
Range(s) == {s[i] : i \in 1..Len(s)}

Max2(a, b) == IF a >= b THEN a ELSE b

Min2(a, b) == IF a <= b THEN a ELSE b

\* s[:k] of Python: a negative k counts from the end
PySlice(s, k) ==
    IF k >= 0 THEN SubSeq(s, 1, Min2(k, Len(s)))
    ELSE SubSeq(s, 1, Max2(Len(s) + k, 0))

\* the elements of a finite set of integers in ascending order
RECURSIVE SortedSeq(_)
SortedSeq(S) ==
    IF S = {} THEN <<>>
    ELSE LET m == CHOOSE x \in S : \A y \in S : x <= y
         IN <<m>> \o SortedSeq(S \ {m})

RECURSIVE SumSeq(_)
SumSeq(s) == IF s = <<>> THEN 0 ELSE s[1] + SumSeq(Tail(s))

(***************************************************************************)
(* The sample repositories.  A path is <<stem, suffix>>; a file's content  *)
(* is the sequence of its units (function definitions of a .py file, the   *)
(* text of another file), each a text of characters and a count of lines.  *)
(* Every sample file is shorter than CHUNK_SIZE_LINES.                     *)
(***************************************************************************)
Repos == {"r1", "r2"}

APy == <<"a", ".py">>

BHtml == <<"b", ".html">>

CMd == <<"c", ".md">>

FilesOf(repo) == IF repo = "r1" THEN {APy, BHtml, CMd} ELSE {APy}

\* git ls-files lists paths in this order
LsOrder == <<APy, BHtml, CMd>>

UnitX == [text |-> <<"a", "b">>, nlines |-> 2]

UnitY == [text |-> <<"c", "d">>, nlines |-> 2]

UnitZ == [text |-> <<"a", "b", "C", "d">>, nlines |-> 1]

\* the contents a sample file may be given
ContentsOf(repo, path) ==
    IF repo = "r1" /\ path = APy THEN {<<>>, <<UnitX>>, <<UnitY>>, <<UnitX, UnitZ>>}
    ELSE IF path = BHtml THEN {<<UnitY>>, <<UnitZ>>}
    ELSE {<<UnitZ>>}

Mtimes == 1..MaxMtime

(***************************************************************************)
(* config.py                                                               *)
(***************************************************************************)
SUPPORTED_EXTENSIONS == {".py", ".md", ".html"}

(***************************************************************************)
(* git.py: get_tracked_files.  `git ls-files` restricted to the supported  *)
(* suffixes, in listing order.                                             *)
(***************************************************************************)
get_tracked_files(repo_root) ==
    SelectSeq(LsOrder, LAMBDA p : p \in tracked[repo_root]
                                  /\ p[2] \in SUPPORTED_EXTENSIONS)

(***************************************************************************)
(* chunker.py: chunk_file on the sample contents.  A result is             *)
(* [chunks, raised]; raised names the exception that escapes.              *)
(***************************************************************************)
RECURSIVE LinesBefore(_, _)
LinesBefore(content, i) ==
    IF i <= 1 THEN 0 ELSE content[i - 1].nlines + LinesBefore(content, i - 1)

RECURSIVE JoinLines(_)
JoinLines(content) ==
    IF content = <<>> THEN <<>>
    ELSE IF Len(content) = 1 THEN content[1].text
    ELSE content[1].text \o <<"\n">> \o JoinLines(Tail(content))

\* chunk_lines for content of at most CHUNK_SIZE_LINES lines: nothing for no
\* line, else one chunk holding the whole content
chunk_lines(content) ==
    IF content = <<>> THEN <<>>
    ELSE << [text |-> JoinLines(content), start_line |-> 1,
             end_line |-> LinesBefore(content, Len(content) + 1)] >>

\* chunk_python: one chunk per function definition, from its declaration line
\* to the last line of its body; line-based chunks when there is none
chunk_python(content) ==
    IF content = <<>> THEN chunk_lines(content)
    ELSE [i \in 1..Len(content) |->
            [text |-> content[i].text,
             start_line |-> LinesBefore(content, i) + 1,
             end_line |-> LinesBefore(content, i) + content[i].nlines]]

\* chunk_markdown is called for a .md path and defined nowhere: NameError
chunk_file(file_path, content) ==
    IF file_path[2] = ".py" THEN [chunks |-> chunk_python(content), raised |-> None]
    ELSE IF file_path[2] = ".md" THEN [chunks |-> <<>>, raised |-> "NameError"]
    ELSE [chunks |-> chunk_lines(content), raised |-> None]

(***************************************************************************)
(* embedder.py: the model's encoding, a stand-in with one dimension: the   *)
(* count of "a" minus the count of "c" in the text, so that the zero       *)
(* vector, equal vectors and opposite vectors all occur.                   *)
(***************************************************************************)
CountOf(text, ch) == Cardinality({i \in 1..Len(text) : text[i] = ch})

encode(text) == CountOf(text, "a") - CountOf(text, "c")

embed_documents(texts) == [i \in 1..Len(texts) |-> encode(texts[i])]

embed_query(query) == encode(query)

(***************************************************************************)
(* db.py.  Table rows are records; an operation maps the rows a            *)
(* connection sees to the rows it sees afterwards.                         *)
(***************************************************************************)
NoMtime == 0 - 1

RepoId(repos_, repo_path) ==
    IF \E i \in 1..Len(repos_) : repos_[i] = repo_path
    THEN CHOOSE i \in 1..Len(repos_) : repos_[i] = repo_path
    ELSE 0

\* an INSERT without the SELECT before it
get_or_create_repo_always_insert(repos_, repo_path) ==
    [repos |-> Append(repos_, repo_path), id |-> Len(repos_) + 1]

\* get_or_create_repo: the id of the row, inserted and committed when absent
get_or_create_repo(repos_, repo_path) ==
    IF RepoId(repos_, repo_path) # 0
    THEN [repos |-> repos_, id |-> RepoId(repos_, repo_path)]
    ELSE [repos |-> Append(repos_, repo_path), id |-> Len(repos_) + 1]

FileRows(rows, repo_id, file_path) ==
    {r \in rows : r.repo_id = repo_id /\ r.file_path = file_path}

\* get_file_mtime: SELECT ... LIMIT 1 through idx_chunks_file, the row of
\* least rowid; NoMtime stands for Python's None (modification times are >= 1)
get_file_mtime(rows, repo_id, file_path) ==
    LET fr == FileRows(rows, repo_id, file_path)
    IN IF fr = {} THEN NoMtime
       ELSE (CHOOSE r \in fr : \A q \in fr : r.id <= q.id).file_mtime

\* a DELETE that leaves the file's row of least rowid in place
delete_file_chunks_but_first(rows, repo_id, file_path) ==
    rows \ {r \in FileRows(rows, repo_id, file_path) :
               \E q \in FileRows(rows, repo_id, file_path) : q.id < r.id}

\* delete_file_chunks: DELETE FROM chunks WHERE repo_id = ? AND file_path = ?
delete_file_chunks(rows, repo_id, file_path) ==
    rows \ FileRows(rows, repo_id, file_path)

\* id INTEGER PRIMARY KEY without AUTOINCREMENT: the rowid of a new row is one
\* more than the largest rowid present in the table
NextRowid(rows) ==
    IF rows = {} THEN 1
    ELSE (CHOOSE r \in rows : \A q \in rows : r.id >= q.id).id + 1

insert_chunk(rows, repo_id, file_path, file_mtime, start_line, end_line, chunk_text, embedding) ==
    rows \cup {[id |-> NextRowid(rows), repo_id |-> repo_id,
                file_path |-> file_path, file_mtime |-> file_mtime,
                start_line |-> start_line, end_line |-> end_line,
                chunk_text |-> chunk_text, embedding |-> embedding]}

\* get_repo_chunks: the rows of the repository read through idx_chunks_repo,
\* which yields them in rowid order
get_repo_chunks(rows, repo_id) ==
    LET rr == {r \in rows : r.repo_id = repo_id}
        ids == SortedSeq({r.id : r \in rr})
    IN [i \in 1..Len(ids) |-> CHOOSE r \in rr : r.id = ids[i]]

\* the stored paths without the WHERE repo_id = ? clause
get_repo_files_any_repo(rows, repo_id) == {r.file_path : r \in rows}

get_repo_files(rows, repo_id) ==
    {r.file_path : r \in {q \in rows : q.repo_id = repo_id}}

(***************************************************************************)
(* indexer.py: index_repo.  Every statement of a pass runs in one          *)
(* transaction of its connection: the rows change for the connection       *)
(* only, and reach the table at conn.commit().                             *)
(***************************************************************************)
ZeroStats == [files_scanned |-> 0, files_updated |-> 0, chunks_added |-> 0, files_removed |-> 0]

\* lines 33-35: delete the chunks of every stored file that is not tracked
RECURSIVE delete_files(_, _, _)
delete_files(rows, repo_id, paths) ==
    IF paths = {} THEN rows
    ELSE LET p == CHOOSE x \in paths : TRUE
         IN delete_files(delete_file_chunks(rows, repo_id, p), repo_id, paths \ {p})

\* the skip test with > for >=: a file of equal modification time is not skipped
is_unchanged_strict(force, cached_mtime, current_mtime) ==
    ~force /\ cached_mtime # NoMtime /\ cached_mtime > current_mtime

\* line 52: the test that skips an unchanged file
is_unchanged(force, cached_mtime, current_mtime) ==
    ~force /\ cached_mtime # NoMtime /\ cached_mtime >= current_mtime

\* one iteration without the test of lines 45-46: a path that is not on disk
\* is read as if it were
scan_one_without_exists(rows, repo_root, repo_id, force, rel_path) ==
    LET entry == disk[repo_root][rel_path]
        cached_mtime == get_file_mtime(rows, repo_id, rel_path)
        c == chunk_file(rel_path, entry.content)
    IN IF is_unchanged(force, cached_mtime, entry.mtime)
       THEN [entries |-> <<>>, raised |-> None]
       ELSE IF c.raised # None THEN [entries |-> <<>>, raised |-> c.raised]
       ELSE [entries |-> [i \in 1..Len(c.chunks) |->
                            [rel_path |-> rel_path, mtime |-> entry.mtime,
                             chunk |-> c.chunks[i]]],
             raised |-> None]

\* lines 42-68, one iteration: the entries one tracked file queues for
\* embedding, or the exception chunk_file raises
scan_one(rows, repo_root, repo_id, force, rel_path) ==
    LET entry == disk[repo_root][rel_path]
        cached_mtime == get_file_mtime(rows, repo_id, rel_path)
        c == chunk_file(rel_path, entry.content)
    IN IF ~entry.exists THEN [entries |-> <<>>, raised |-> None]
       ELSE IF is_unchanged(force, cached_mtime, entry.mtime)
       THEN [entries |-> <<>>, raised |-> None]
       ELSE IF c.raised # None THEN [entries |-> <<>>, raised |-> c.raised]
       ELSE [entries |-> [i \in 1..Len(c.chunks) |->
                            [rel_path |-> rel_path, mtime |-> entry.mtime,
                             chunk |-> c.chunks[i]]],
             raised |-> None]

\* what the scan of the files after the first adds to the first file's entries
scan_join(one, rest) ==
    IF one.raised # None THEN [files_to_embed |-> <<>>, raised |-> one.raised]
    ELSE [files_to_embed |-> one.entries \o rest.files_to_embed, raised |-> rest.raised]

\* lines 41-68: the scan of the tracked files, queueing the chunks to embed
RECURSIVE scan_files(_, _, _, _, _)
scan_files(rows, repo_root, repo_id, force, files) ==
    IF files = <<>> THEN [files_to_embed |-> <<>>, raised |-> None]
    ELSE scan_join(scan_one(rows, repo_root, repo_id, force, Head(files)),
                   scan_files(rows, repo_root, repo_id, force, Tail(files)))

\* one iteration without lines 83-86: the file's old chunks are kept
store_one_keeping_old(st, repo_id, e, embedding) ==
    [rows |-> insert_chunk(st.rows, repo_id, e.rel_path, e.mtime, e.chunk.start_line,
                           e.chunk.end_line, e.chunk.text, embedding),
     processed_files |-> st.processed_files \cup {e.rel_path},
     files_updated |-> st.files_updated
                       + (IF e.rel_path \notin st.processed_files THEN 1 ELSE 0),
     chunks_added |-> st.chunks_added + 1]

\* lines 81-93, one iteration: delete the file's old chunks once, insert the chunk
store_one(st, repo_id, e, embedding) ==
    LET first == e.rel_path \notin st.processed_files
        rows1 == IF first THEN delete_file_chunks(st.rows, repo_id, e.rel_path) ELSE st.rows
    IN [rows |-> insert_chunk(rows1, repo_id, e.rel_path, e.mtime, e.chunk.start_line,
                              e.chunk.end_line, e.chunk.text, embedding),
        processed_files |-> st.processed_files \cup {e.rel_path},
        files_updated |-> st.files_updated + (IF first THEN 1 ELSE 0),
        chunks_added |-> st.chunks_added + 1]

\* the first embedding of the batch for every chunk
embedding_of_first(embeddings, i) == embeddings[1]

\* line 91: embeddings[i], the embedding at the queued chunk's own position
embedding_of(embeddings, i) == embeddings[i]

RECURSIVE store_chunks(_, _, _, _, _)
store_chunks(st, repo_id, files_to_embed, embeddings, i) ==
    IF i > Len(files_to_embed) THEN st
    ELSE store_chunks(store_one(st, repo_id, files_to_embed[i], embedding_of(embeddings, i)),
                      repo_id, files_to_embed, embeddings, i + 1)

StoreStart(rows) == [rows |-> rows, processed_files |-> {}, files_updated |-> 0, chunks_added |-> 0]

\* index_repo(repo_root, embedder, force), with the table contents it starts
\* from and whether the embedding provider answers.  The result holds the
\* committed tables, the stats, the exception that escapes (the open
\* transaction is then rolled back) and the batches handed to embed_documents.
index_repo(repos_, rows, repo_root, force, provider_ok) ==
    LET g == get_or_create_repo(repos_, repo_root)
        tracked_files == get_tracked_files(repo_root)
        indexed_files == get_repo_files(rows, g.id)
        old_files == indexed_files \ Range(tracked_files)
        rows1 == delete_files(rows, g.id, old_files)
        sc == scan_files(rows1, repo_root, g.id, force, tracked_files)
        chunks_to_embed == [i \in 1..Len(sc.files_to_embed) |-> sc.files_to_embed[i].chunk.text]
        st == store_chunks(StoreStart(rows1), g.id, sc.files_to_embed,
                           embed_documents(chunks_to_embed), 1)
        scanned == [ZeroStats EXCEPT !.files_scanned = Len(tracked_files),
                                     !.files_removed = Cardinality(old_files)]
    IN IF sc.raised # None
       THEN [repos |-> g.repos, chunks |-> rows, stats |-> ZeroStats,
             raised |-> sc.raised, batches |-> <<>>]
       ELSE IF chunks_to_embed = <<>>
       THEN [repos |-> g.repos, chunks |-> rows1, stats |-> scanned,
             raised |-> None, batches |-> <<>>]
       ELSE IF ~provider_ok
       THEN [repos |-> g.repos, chunks |-> rows, stats |-> ZeroStats,
             raised |-> "RuntimeError", batches |-> <<chunks_to_embed>>]
       ELSE [repos |-> g.repos, chunks |-> st.rows,
             stats |-> [scanned EXCEPT !.files_updated = st.files_updated,
                                       !.chunks_added = st.chunks_added],
             raised |-> None, batches |-> <<chunks_to_embed>>]

(***************************************************************************)
(* bm25.py: tokenize, on texts over a small alphabet.                      *)
(***************************************************************************)
LowerCase == {"a", "b", "c", "d", "e", "f"}

UpperCase == {"A", "B", "C", "D"}

Digits == {"1"}

ToLower(ch) ==
    CASE ch = "A" -> "a" [] ch = "B" -> "b" [] ch = "C" -> "c" [] ch = "D" -> "d"
      [] OTHER -> ch

IsAlnum(ch) == ch \in LowerCase \cup UpperCase \cup Digits

\* re.sub(r'([a-z])([A-Z])', r'\1 \2', text): matches do not overlap
RECURSIVE split_camel(_)
split_camel(text) ==
    IF Len(text) < 2 THEN text
    ELSE IF text[1] \in LowerCase /\ text[2] \in UpperCase
    THEN <<text[1], " ", text[2]>> \o split_camel(SubSeq(text, 3, Len(text)))
    ELSE <<text[1]>> \o split_camel(Tail(text))

\* text.replace('_', ' ')
replace_underscore(text) == [i \in 1..Len(text) |-> IF text[i] = "_" THEN " " ELSE text[i]]

\* text.lower()
lower(text) == [i \in 1..Len(text) |-> ToLower(text[i])]

\* re.findall(r'[a-zA-Z0-9]+', text): the maximal alphanumeric runs; cur is the
\* run being read
RECURSIVE findall_alnum(_, _)
findall_alnum(text, cur) ==
    IF text = <<>> THEN (IF cur = <<>> THEN <<>> ELSE <<cur>>)
    ELSE IF IsAlnum(text[1]) THEN findall_alnum(Tail(text), Append(cur, text[1]))
    ELSE (IF cur = <<>> THEN <<>> ELSE <<cur>>) \o findall_alnum(Tail(text), <<>>)

\* tokenize without the substitution of line 11
tokenize_without_camel(text) ==
    SelectSeq(findall_alnum(lower(replace_underscore(text)), <<>>),
              LAMBDA t : Len(t) > 1)

tokenize(text) ==
    SelectSeq(findall_alnum(lower(replace_underscore(split_camel(text))), <<>>),
              LAMBDA t : Len(t) > 1)

(***************************************************************************)
(* bm25.py: BM25Index.  Scores are fixed-point numbers, the real score     *)
(* times LnScale cut to an integer; k1 and b are the fractions 3/2 and     *)
(* 3/4.                                                                    *)
(***************************************************************************)
k1 == [num |-> 3, den |-> 2]

b == [num |-> 3, den |-> 4]

LnScale == 10 * 1000

\* the series of 2*atanh(y) = ln((1+y)/(1-y)), y and the result scaled by LnScale
RECURSIVE AtanhSeries(_, _, _, _)
AtanhSeries(pw, y2, d, n) ==
    IF n = 0 \/ pw = 0 THEN 0
    ELSE pw \div d + AtanhSeries((pw * y2) \div LnScale, y2, d + 2, n - 1)

\* math.log(num / den) for num >= den > 0, scaled by LnScale
LnScaled(num, den) ==
    LET y == ((num - den) * LnScale) \div (num + den)
    IN 2 * AtanhSeries(y, (y * y) \div LnScale, 1, 20)

\* Counter(tokens)
Counter(tokens) ==
    [t \in Range(tokens) |-> Cardinality({i \in 1..Len(tokens) : tokens[i] = t})]

\* BM25Index.index(documents); avg_doc_len is kept as the fraction
\* sum(doc_lens) / max(num_docs, 1)
BM25Index_index(documents) ==
    LET n == Len(documents)
        toks == [i \in 1..n |-> tokenize(documents[i])]
        tfs == [i \in 1..n |-> Counter(toks[i])]
        lens == [i \in 1..n |-> Len(toks[i])]
    IN [num_docs |-> n,
        doc_lens |-> lens,
        doc_term_freqs |-> tfs,
        doc_freqs |-> [t \in UNION {DOMAIN tfs[i] : i \in 1..n} |->
                          Cardinality({i \in 1..n : t \in DOMAIN tfs[i]})],
        avg_doc_len |-> [num |-> SumSeq(lens), den |-> Max2(n, 1)]]

\* the addend with the idf of the textbook formula, ln((N - df + 0.5) / (df + 0.5)),
\* without the 1 that line 91 adds inside the logarithm
term_score_plain_idf(bm25, term, doc_idx) ==
    LET tfs == bm25.doc_term_freqs[doc_idx + 1]
        tf == IF term \in DOMAIN tfs THEN tfs[term] ELSE 0
        df == bm25.doc_freqs[term]
        dl == bm25.doc_lens[doc_idx + 1]
        tot == bm25.avg_doc_len.num
        cnt == bm25.avg_doc_len.den
        idf == IF bm25.num_docs >= 2 * df
               THEN LnScaled(2 * bm25.num_docs - 2 * df + 1, 2 * df + 1)
               ELSE 0 - LnScaled(2 * df + 1, 2 * bm25.num_docs - 2 * df + 1)
        numer == tf * (k1.num + k1.den) * b.den * tot
        denom == tf * k1.den * b.den * tot
                 + k1.num * ((b.den - b.num) * tot + b.num * dl * cnt)
    IN IF term \notin DOMAIN bm25.doc_freqs THEN 0
       ELSE IF tf = 0 THEN 0
       ELSE (idf * numer) \div denom

\* one term's addend of _score_doc: idf * tf_norm, where
\*   idf = ln((N - df + 0.5) / (df + 0.5) + 1) = ln((2N + 2) / (2df + 1))
\*   tf_norm = tf (k1 + 1) / (tf + k1 (1 - b + b doc_len / avg_doc_len))
\* with tf_norm brought to one fraction of integers
term_score(bm25, term, doc_idx) ==
    LET tfs == bm25.doc_term_freqs[doc_idx + 1]
        tf == IF term \in DOMAIN tfs THEN tfs[term] ELSE 0
        df == bm25.doc_freqs[term]
        dl == bm25.doc_lens[doc_idx + 1]
        tot == bm25.avg_doc_len.num
        cnt == bm25.avg_doc_len.den
        idf == LnScaled(2 * bm25.num_docs + 2, 2 * df + 1)
        numer == tf * (k1.num + k1.den) * b.den * tot
        denom == tf * k1.den * b.den * tot
                 + k1.num * ((b.den - b.num) * tot + b.num * dl * cnt)
    IN IF term \notin DOMAIN bm25.doc_freqs THEN 0
       ELSE IF tf = 0 THEN 0
       ELSE (idf * numer) \div denom

\* BM25Index._score_doc(query_tokens, doc_idx), doc_idx counted from 0
RECURSIVE score_doc(_, _, _)
score_doc(bm25, query_tokens, doc_idx) ==
    IF query_tokens = <<>> THEN 0
    ELSE term_score(bm25, Head(query_tokens), doc_idx)
         + score_doc(bm25, Tail(query_tokens), doc_idx)

\* list.sort(key=score, reverse=True) and sorted(..., reverse=True): stable,
\* entries of equal score keep their order.  An entry is <<doc_idx, score>>.
RECURSIVE sort_by_score_desc(_)
sort_by_score_desc(pairs) ==
    IF pairs = <<>> THEN <<>>
    ELSE LET i == CHOOSE j \in 1..Len(pairs) :
                     /\ \A m \in 1..Len(pairs) : pairs[j][2] >= pairs[m][2]
                     /\ \A m \in 1..(j - 1) : pairs[m][2] < pairs[j][2]
         IN <<pairs[i]>> \o sort_by_score_desc(SubSeq(pairs, 1, i - 1)
                                               \o SubSeq(pairs, i + 1, Len(pairs)))

\* search without the sort of line 69
BM25Index_search_unsorted(bm25, query, top_k) ==
    LET query_tokens == tokenize(query)
        scores == [i \in 1..bm25.num_docs |-> <<i - 1, score_doc(bm25, query_tokens, i - 1)>>]
    IN PySlice(scores, top_k)

\* BM25Index.search(query, top_k)
BM25Index_search(bm25, query, top_k) ==
    LET query_tokens == tokenize(query)
        scores == [i \in 1..bm25.num_docs |-> <<i - 1, score_doc(bm25, query_tokens, i - 1)>>]
    IN PySlice(sort_by_score_desc(scores), top_k)

(***************************************************************************)
(* bm25.py: reciprocal_rank_fusion.  A fused score is a sum of fractions   *)
(* 1/(k + rank + 1); it is kept exactly, as its numerator over the common  *)
(* denominator RRFDen: an entry of the result is <<doc_idx, numerator>>.   *)
(***************************************************************************)
RRF_K == 60

RECURSIVE Gcd(_, _)
Gcd(x, y) == IF y = 0 THEN x ELSE Gcd(y, x % y)

RECURSIVE LcmUpTo(_, _)
LcmUpTo(k, n) ==
    IF n = 0 THEN 1
    ELSE LET l == LcmUpTo(k, n - 1) IN (l \div Gcd(l, k + n)) * (k + n)

RECURSIVE MaxLen(_)
MaxLen(rankings) ==
    IF rankings = <<>> THEN 0 ELSE Max2(Len(Head(rankings)), MaxLen(Tail(rankings)))

\* the least common multiple of k+1 .. k+L, L the longest ranking's length
RRFDen(rankings, k) == LcmUpTo(k, MaxLen(rankings))

\* lines 118-123: fused is the dict as the sequence of its items in insertion order
RECURSIVE fuse_ranking(_, _, _, _, _)
fuse_ranking(fused, ranking, rank, k, den) ==
    IF rank >= Len(ranking) THEN fused
    ELSE LET doc_idx == ranking[rank + 1][1]
             add == den \div (k + rank + 1)
             known == \E i \in 1..Len(fused) : fused[i][1] = doc_idx
             fused1 == IF known THEN fused ELSE Append(fused, <<doc_idx, 0>>)
         IN fuse_ranking([i \in 1..Len(fused1) |->
                             IF fused1[i][1] = doc_idx
                             THEN <<doc_idx, fused1[i][2] + add>> ELSE fused1[i]],
                         ranking, rank + 1, k, den)

RECURSIVE fuse_rankings(_, _, _, _)
fuse_rankings(fused, rankings, k, den) ==
    IF rankings = <<>> THEN fused
    ELSE fuse_rankings(fuse_ranking(fused, Head(rankings), 0, k, den),
                       Tail(rankings), k, den)

\* the fused items as the dict holds them, without the sort of line 126
reciprocal_rank_fusion_unsorted(rankings, k) ==
    fuse_rankings(<<>>, rankings, k, RRFDen(rankings, k))

reciprocal_rank_fusion(rankings, k) ==
    sort_by_score_desc(fuse_rankings(<<>>, rankings, k, RRFDen(rankings, k)))

(***************************************************************************)
(* embedder.py: cosine_similarity_matrix, for vectors of one dimension.    *)
(* A vector of norm 0 is left as it is, any other is divided by its norm:  *)
(* the similarity is the product of the signs (times |q|/(|q| + eps), the  *)
(* same positive factor for every document, which is left out).            *)
(***************************************************************************)
Sign(x) == IF x > 0 THEN 1 ELSE IF x < 0 THEN 0 - 1 ELSE 0

cosine_similarity_matrix(query, documents) ==
    [i \in 1..Len(documents) |-> Sign(documents[i]) * Sign(query)]

\* the results np.argsort(similarities)[::-1] may give: the indices (from 0)
\* by descending similarity, equal similarities in an order the sort chooses
ArgsortDesc(similarities) ==
    LET n == Len(similarities)
    IN {p \in [1..n -> 0..(n - 1)] :
           /\ \A i, j \in 1..n : i # j => p[i] # p[j]
           /\ \A i \in 1..(n - 1) : similarities[p[i] + 1] >= similarities[p[i + 1] + 1]}

(***************************************************************************)
(* search.py: search.  A file pattern is <<>> (none) or <<stem, suffix>>   *)
(* with "*" for any stem or any suffix.                                    *)
(***************************************************************************)
fnmatch(file_path, pattern) ==
    /\ pattern[1] = "*" \/ pattern[1] = file_path[1]
    /\ pattern[2] = "*" \/ pattern[2] = file_path[2]

DictDel(d, key) ==
    IF (DOMAIN d) \ {key} = {} THEN <<>> ELSE [x \in (DOMAIN d) \ {key} |-> d[x]]

DictSet(d, key, val) == [x \in (DOMAIN d) \cup {key} |-> IF x = key THEN val ELSE d[x]]

\* lines 57-59: the chunks whose path matches the pattern, all without one
filter_chunks(all_chunks, file_pattern) ==
    IF file_pattern # <<>>
    THEN SelectSeq(all_chunks, LAMBDA c : fnmatch(c.file_path, file_pattern))
    ELSE all_chunks

\* lines 36-62: reconcile, evict the cache entry on an update, load and filter
search_load(ix, cache, repo_root, file_pattern) ==
    LET cache1 == IF ix.raised = None /\ ix.stats.files_updated > 0
                     /\ repo_root \in DOMAIN cache
                  THEN DictDel(cache, repo_root) ELSE cache
        all_chunks == get_repo_chunks(ix.chunks, get_or_create_repo(ix.repos, repo_root).id)
    IN [ix |-> ix, cache |-> cache1, all_chunks |-> all_chunks,
        chunks |-> filter_chunks(all_chunks, file_pattern)]

search_prepare(repos_, rows, cache, repo_root, file_pattern, provider_ok) ==
    search_load(index_repo(repos_, rows, repo_root, FALSE, provider_ok), cache, repo_root,
                file_pattern)

Similarities(chunks_, query) ==
    cosine_similarity_matrix(embed_query(query), [i \in 1..Len(chunks_) |-> chunks_[i].embedding])

\* the cache read and written whatever the file pattern
cacheable_any_pattern(file_pattern) == TRUE

\* "not file_pattern" at lines 87 and 99: the cache is read and written only
\* by a search without a file pattern
cacheable(file_pattern) == file_pattern = <<>>

\* lines 64-130: rank the loaded chunks.  order is the result of the argsort
\* of the semantic step.  The result holds the SearchResults, the cache as the
\* call leaves it, the exception that escapes and, in used, the BM25 index
\* the lexical step scored with.
search_rank(chunks_, all_chunks, cache, cache_key, query, top_k, file_pattern, mode, order, provider_ok) ==
    LET fetch_k == Min2(top_k * 3, Len(chunks_))
        sem == mode \in {"hybrid", "semantic"}
        lex == mode \in {"hybrid", "lexical"}
        similarities == Similarities(chunks_, query)
        top_sem == PySlice(order, fetch_k)
        semantic_ranking == [i \in 1..Len(top_sem) |-> <<top_sem[i], similarities[top_sem[i] + 1]>>]
        current_chunk_ids == [i \in 1..Len(all_chunks) |-> all_chunks[i].id]
        use_cached == /\ cacheable(file_pattern)
                      /\ cache_key \in DOMAIN cache
                      /\ cache[cache_key].chunk_ids = current_chunk_ids
        bm25 == IF use_cached THEN cache[cache_key].bm25
                ELSE BM25Index_index([i \in 1..Len(chunks_) |-> chunks_[i].chunk_text])
        cache2 == IF lex /\ ~use_cached /\ cacheable(file_pattern)
                  THEN DictSet(cache, cache_key, [bm25 |-> bm25, chunk_ids |-> current_chunk_ids])
                  ELSE cache
        lexical_ranking == BM25Index_search(bm25, query, fetch_k)
        rankings == (IF sem THEN <<semantic_ranking>> ELSE <<>>)
                    \o (IF lex THEN <<lexical_ranking>> ELSE <<>>)
        ranked == IF mode = "hybrid" THEN reciprocal_rank_fusion(rankings, RRF_K)
                  ELSE rankings[1]
        top == PySlice(ranked, top_k)
    IN IF chunks_ = <<>>
       THEN [results |-> <<>>, cache |-> cache, raised |-> None, used |-> <<>>,
             rankings |-> <<>>]
       ELSE IF sem /\ ~provider_ok
       THEN [results |-> <<>>, cache |-> cache, raised |-> "RuntimeError", used |-> <<>>,
             rankings |-> <<>>]
       ELSE [results |-> [i \in 1..Len(top) |->
                            [file_path |-> chunks_[top[i][1] + 1].file_path,
                             start_line |-> chunks_[top[i][1] + 1].start_line,
                             end_line |-> chunks_[top[i][1] + 1].end_line,
                             score |-> top[i][2],
                             chunk_text |-> chunks_[top[i][1] + 1].chunk_text]],
             cache |-> cache2, raised |-> None,
             used |-> IF lex THEN <<[bm25 |-> bm25, cached |-> use_cached]>> ELSE <<>>,
             rankings |-> rankings]

\* what a search leaves behind: the tables after its reconcile pass (ix), and
\* the outcome of its ranking (rk) unless the pass raised
search_outcome(ix, rk, cache) ==
    IF ix.raised # None
    THEN [repos |-> ix.repos, chunks |-> ix.chunks, cache |-> cache,
          raised |-> ix.raised, results |-> <<>>, used |-> <<>>,
          rankings |-> <<>>, stats |-> ix.stats, batches |-> ix.batches,
          completed |-> FALSE]
    ELSE [repos |-> ix.repos, chunks |-> ix.chunks, cache |-> rk.cache,
          raised |-> rk.raised, results |-> rk.results, used |-> rk.used,
          rankings |-> rk.rankings, stats |-> ix.stats, batches |-> ix.batches,
          completed |-> TRUE]

search_loaded(prep, cache, repo_root, query, top_k, file_pattern, mode, order, provider_ok) ==
    search_outcome(prep.ix,
                   search_rank(prep.chunks, prep.all_chunks, prep.cache, repo_root, query,
                               top_k, file_pattern, mode, order, provider_ok),
                   cache)

\* search(repo_root, query, embedder, top_k, file_pattern, mode, bm25_cache)
search(repos_, rows, cache, repo_root, query, top_k, file_pattern, mode, order, provider_ok) ==
    search_loaded(search_prepare(repos_, rows, cache, repo_root, file_pattern, provider_ok),
                  cache, repo_root, query, top_k, file_pattern, mode, order, provider_ok)

\* the argsort results the semantic step of this search may see
orders_of(prep, query, mode) ==
    IF prep.ix.raised = None /\ mode \in {"hybrid", "semantic"}
    THEN ArgsortDesc(Similarities(prep.chunks, query))
    ELSE {<<>>}

search_orders(repos_, rows, cache, repo_root, query, file_pattern, mode, provider_ok) ==
    orders_of(search_prepare(repos_, rows, cache, repo_root, file_pattern, provider_ok),
              query, mode)

(***************************************************************************)
(* protocol.py and daemon.py: one exchange on a connection.  A payload is  *)
(* what the client writes: kind tells whether its header is 8 decimal      *)
(* digits, its body JSON, and the JSON object the fields of a Request.     *)
(***************************************************************************)
Query1 == <<"a", "b">>

NoPattern == <<>>

PyPattern == <<"*", ".py">>

DefaultRequest ==
    [action |-> "ping", repo_path |-> "", query |-> <<>>, top_k |-> 5,
     file_pattern |-> NoPattern, force_reindex |-> FALSE, mode |-> "hybrid"]

SearchRequests ==
    {[DefaultRequest EXCEPT !.action = "search", !.repo_path = r, !.query = Query1,
                            !.top_k = 1, !.file_pattern = fp, !.mode = m] :
        r \in Repos, fp \in {NoPattern, PyPattern}, m \in {"hybrid", "semantic", "lexical"}}

IndexRequests ==
    {[DefaultRequest EXCEPT !.action = "index", !.repo_path = r, !.force_reindex = f] :
        r \in Repos, f \in BOOLEAN}

StatusRequests ==
    {[DefaultRequest EXCEPT !.action = "status", !.repo_path = r] : r \in Repos \cup {""}}

OtherRequests == {DefaultRequest, [DefaultRequest EXCEPT !.action = "reindex"]}

Requests == SearchRequests \cup IndexRequests \cup StatusRequests \cup OtherRequests

MalformedKinds == {"bad_header", "bad_json", "missing_action", "unknown_field"}

Payloads ==
    {[kind |-> "request", request |-> r] : r \in Requests}
    \cup {[kind |-> kd, request |-> DefaultRequest] : kd \in MalformedKinds}
    \cup {[kind |-> "closed", request |-> DefaultRequest]}

\* Daemon._recv_message: int(header) raises ValueError on a header that is no
\* decimal number; recv returning no bytes (the peer closed the connection
\* before the whole message came) raises ConnectionError
recv_message(payload) ==
    CASE payload.kind = "bad_header" -> "ValueError"
      [] payload.kind = "closed" -> "ConnectionError"
      [] OTHER -> None

\* a parse that ignores the fields Request does not have and defaults a
\* missing action
from_json_lenient(payload) ==
    IF payload.kind = "bad_json" THEN "JSONDecodeError" ELSE None

\* Request.from_json: json.loads raises JSONDecodeError; cls(**fields) raises
\* TypeError on a missing action and on a field Request does not have
from_json(payload) ==
    CASE payload.kind = "bad_json" -> "JSONDecodeError"
      [] payload.kind \in {"missing_action", "unknown_field"} -> "TypeError"
      [] OTHER -> None

\* str(e) of the exceptions above
ErrorText(raised) ==
    CASE raised = "ValueError" -> "invalid literal for int() with base 10"
      [] raised = "JSONDecodeError" -> "Expecting value: line 1 column 1 (char 0)"
      [] raised = "TypeError" -> "__init__() got an unexpected or missing argument"
      [] raised = "NameError" -> "name 'chunk_markdown' is not defined"
      [] raised = "RuntimeError" -> "embedding provider failed"
      [] raised = "ConnectionError" -> "Connection closed while reading message"
      [] OTHER -> ""

Response(success, error, results, stats) ==
    [success |-> success, error |-> error, results |-> results, stats |-> stats]

\* what a request did: the stats and the embedding batches of its reconcile
\* pass, whether it ran one (reconciled) and whether that pass returned
\* (completed), the BM25 index and the rankings of its search
NoTrace ==
    [stats |-> ZeroStats, batches |-> <<>>, used |-> <<>>, rankings |-> <<>>,
     reconciled |-> FALSE, completed |-> FALSE]

\* Daemon._process_request, lines 139-155: the search action, sr the outcome of
\* search()
process_search(sr) ==
    [response |-> Response(TRUE, "", sr.results, <<>>),
     repos |-> sr.repos, chunks |-> sr.chunks, cache |-> sr.cache, raised |-> sr.raised,
     trace |-> [stats |-> sr.stats, batches |-> sr.batches, used |-> sr.used,
                rankings |-> sr.rankings, reconciled |-> TRUE, completed |-> sr.completed]]

\* an index action that rebuilds the cached indexes over no chunks
process_index_recaching(ix, cache) ==
    [response |-> Response(TRUE, "", <<>>, ix.stats),
     repos |-> ix.repos, chunks |-> ix.chunks,
     cache |-> [k \in DOMAIN cache |-> [bm25 |-> BM25Index_index(<<>>), chunk_ids |-> <<>>]],
     raised |-> ix.raised,
     trace |-> [NoTrace EXCEPT !.stats = ix.stats, !.batches = ix.batches,
                               !.reconciled = TRUE, !.completed = (ix.raised = None)]]

\* lines 157-166: the index action, ix the outcome of index_repo(); the BM25
\* cache is left as it is
process_index(ix, cache) ==
    [response |-> Response(TRUE, "", <<>>, ix.stats),
     repos |-> ix.repos, chunks |-> ix.chunks, cache |-> cache, raised |-> ix.raised,
     trace |-> [NoTrace EXCEPT !.stats = ix.stats, !.batches = ix.batches,
                               !.reconciled = TRUE, !.completed = (ix.raised = None)]]

\* lines 136-137, 168-202: ping, status and the unknown action
process_other(request, repos_, rows, cache) ==
    LET g == get_or_create_repo(repos_, request.repo_path)
        repo_rows == {r \in rows : r.repo_id = g.id}
        same == [response |-> Response(TRUE, "", <<>>, <<>>), repos |-> repos_,
                 chunks |-> rows, cache |-> cache, raised |-> None, trace |-> NoTrace]
    IN CASE request.action = "ping" -> same
         [] request.action = "status" ->
              IF request.repo_path = ""
              THEN [same EXCEPT !.response = Response(TRUE, "", <<>>, [status |-> "running"])]
              ELSE [same EXCEPT
                      !.repos = g.repos,
                      !.response = Response(TRUE, "", <<>>,
                          [status |-> "running", repo |-> request.repo_path,
                           files |-> Cardinality({r.file_path : r \in repo_rows}),
                           chunks |-> Cardinality(repo_rows),
                           last_indexed |-> 0,
                           bm25_cached |-> request.repo_path \in DOMAIN cache])]
         [] OTHER -> [same EXCEPT !.response = Response(FALSE, "Unknown action", <<>>, <<>>)]

\* Daemon._process_request.  The result holds the response (when nothing is
\* raised), the tables and the cache as the call leaves them, and what the
\* call did (trace).
process_request(request, repos_, rows, cache, provider_ok, order) ==
    CASE request.action = "search" ->
           process_search(search(repos_, rows, cache, request.repo_path, request.query,
                                 request.top_k, request.file_pattern, request.mode, order,
                                 provider_ok))
      [] request.action = "index" ->
           process_index(index_repo(repos_, rows, request.repo_path, request.force_reindex,
                                    provider_ok), cache)
      [] OTHER -> process_other(request, repos_, rows, cache)

\* lines 93-99: the try block's outcome; early is the exception of reading or
\* parsing, pr the outcome of _process_request
connection_outcome(early, pr, repos_, rows, cache) ==
    IF early # None
    THEN [response |-> Response(FALSE, ErrorText(early), <<>>, <<>>), repos |-> repos_,
          chunks |-> rows, cache |-> cache, trace |-> NoTrace]
    ELSE IF pr.raised # None
    THEN [response |-> Response(FALSE, ErrorText(pr.raised), <<>>, <<>>),
          repos |-> pr.repos, chunks |-> pr.chunks, cache |-> pr.cache,
          trace |-> pr.trace]
    ELSE [response |-> pr.response, repos |-> pr.repos, chunks |-> pr.chunks,
          cache |-> pr.cache, trace |-> pr.trace]

\* Daemon._handle_connection: read, parse, process; any exception becomes
\* Response(success=False, error=str(e))
handle_connection(payload, repos_, rows, cache, provider_ok, order) ==
    connection_outcome(IF recv_message(payload) # None THEN recv_message(payload)
                       ELSE from_json(payload),
                       process_request(payload.request, repos_, rows, cache, provider_ok, order),
                       repos_, rows, cache)

\* the argsort results the request's semantic step may see
OrdersFor(payload, provider_ok) ==
    IF payload.kind = "request" /\ payload.request.action = "search"
    THEN search_orders(repos, chunks, bm25_cache, payload.request.repo_path,
                       payload.request.query, payload.request.file_pattern,
                       payload.request.mode, provider_ok)
    ELSE {<<>>}

(***************************************************************************)
(* The daemon serving requests while the working trees change.  The        *)
(* daemon has started: Daemon._run is at the head of its loop.  A request  *)
(* is handled in one step between reading it and answering it; the         *)
(* working tree and the git index change between requests.                 *)
(***************************************************************************)
NewConn == [log |-> <<>>]

IdlePass == [pc |-> "idle"]

IdleRRF == [rankings |-> <<>>, fused |-> <<>>, done |-> FALSE]

IdleSearch == [pc |-> "idle"]

IdleBM == [pc |-> "idle"]

IdleChunk == [pc |-> "idle"]

IdleClient == [pc |-> "idle"]

InitContent(repo, path) ==
    IF path = APy /\ repo = "r1" THEN <<UnitX>>
    ELSE IF path = BHtml THEN <<UnitY>> ELSE <<UnitZ>>

InitFS ==
    /\ tracked = [r \in Repos |-> IF r = "r1" THEN {APy, BHtml} ELSE {APy}]
    /\ disk = [r \in Repos |-> [p \in FilesOf(r) |->
                 [exists |-> TRUE, mtime |-> 1, content |-> InitContent(r, p)]]]

InitDB ==
    /\ repos = <<>>
    /\ chunks = {}

\* the daemon has started and is at the head of its loop
InitServing ==
    /\ InitFS
    /\ InitDB
    /\ bm25_cache = <<>>
    /\ dpc = "loop"
    /\ running = TRUE
    /\ pid_file = TRUE
    /\ socket_file = TRUE
    /\ backlog = 0
    /\ conn = <<>>
    /\ signalled = FALSE
    /\ changes = 0

Init ==
    /\ InitServing
    /\ pass = IdlePass
    /\ rrf = IdleRRF
    /\ srch = IdleSearch
    /\ bm = IdleBM
    /\ chk = IdleChunk
    /\ cli = IdleClient

fsVars == <<tracked, disk, changes>>

dbVars == <<repos, chunks>>

lifeVars == <<running, pid_file, socket_file, signalled>>

auxVars == <<pass, rrf, srch, bm, chk, cli>>

\* a client connects: the connection waits in the listen backlog
ClientConnect ==
    /\ socket_file
    /\ dpc \in {"load", "setrun", "loop", "accept", "recv", "send"}
    /\ backlog < MaxBacklog
    /\ backlog' = backlog + 1
    /\ UNCHANGED <<fsVars, dbVars, bm25_cache, dpc, conn, lifeVars, auxVars>>

\* line 78: while self.running, entered
LoopEnter ==
    /\ dpc = "loop"
    /\ running
    /\ dpc' = "accept"
    /\ UNCHANGED <<fsVars, dbVars, bm25_cache, backlog, conn, lifeVars, auxVars>>

\* line 80: accept returns a connection
Accept ==
    /\ dpc = "accept"
    /\ backlog > 0
    /\ backlog' = backlog - 1
    /\ conn' = Append(conn, NewConn)
    /\ dpc' = "recv"
    /\ UNCHANGED <<fsVars, dbVars, bm25_cache, lifeVars, auxVars>>

\* lines 82-83: socket.timeout after a second without a connection
AcceptTimeout ==
    /\ dpc = "accept"
    /\ backlog = 0
    /\ dpc' = "loop"
    /\ UNCHANGED <<fsVars, dbVars, bm25_cache, backlog, conn, lifeVars, auxVars>>

\* lines 93-95: the request is read, parsed and processed
Process ==
    /\ dpc = "recv"
    /\ \E payload \in Payloads, provider_ok \in BOOLEAN :
         \E order \in OrdersFor(payload, provider_ok) :
            \E out \in {handle_connection(payload, repos, chunks, bm25_cache, provider_ok, order)} :
               /\ NextRowid(out.chunks) <= MaxRowid + 1
               /\ repos' = out.repos
               /\ chunks' = out.chunks
               /\ bm25_cache' = out.cache
               /\ conn' = [conn EXCEPT ![Len(conn)].log =
                              <<[payload |-> payload, resp |-> out.response,
                                 trace |-> out.trace,
                                 before |-> [repos |-> repos, chunks |-> chunks]]>>]
    /\ dpc' = "send"
    /\ UNCHANGED <<fsVars, backlog, lifeVars, auxVars>>

\* the response is written and the connection left open
SendWithoutClose ==
    /\ dpc = "send"
    /\ dpc' = "loop"
    /\ UNCHANGED <<fsVars, dbVars, bm25_cache, backlog, conn, lifeVars, auxVars>>

\* lines 96-104: the response is written (or the write fails) and the
\* connection closed
SendClose ==
    /\ dpc = "send"
    /\ conn' = SubSeq(conn, 1, Len(conn) - 1)
    /\ dpc' = "loop"
    /\ UNCHANGED <<fsVars, dbVars, bm25_cache, backlog, lifeVars, auxVars>>

\* a file is written (created, edited or touched)
WriteFile ==
    /\ dpc = "loop"
    /\ changes < MaxChanges
    /\ \E r \in Repos : \E p \in FilesOf(r) :
         \E c \in ContentsOf(r, p), m \in Mtimes :
            /\ disk[r][p] # [exists |-> TRUE, mtime |-> m, content |-> c]
            /\ disk' = [disk EXCEPT ![r][p] = [exists |-> TRUE, mtime |-> m, content |-> c]]
    /\ changes' = changes + 1
    /\ UNCHANGED <<tracked, dbVars, bm25_cache, dpc, backlog, conn, lifeVars, auxVars>>

\* a file is deleted from the working tree
RemoveFile ==
    /\ dpc = "loop"
    /\ changes < MaxChanges
    /\ \E r \in Repos : \E p \in FilesOf(r) :
         /\ disk[r][p].exists
         /\ disk' = [disk EXCEPT ![r][p].exists = FALSE]
    /\ changes' = changes + 1
    /\ UNCHANGED <<tracked, dbVars, bm25_cache, dpc, backlog, conn, lifeVars, auxVars>>

\* git add
GitAdd ==
    /\ dpc = "loop"
    /\ changes < MaxChanges
    /\ \E r \in Repos : \E p \in FilesOf(r) \ tracked[r] :
         /\ disk[r][p].exists
         /\ tracked' = [tracked EXCEPT ![r] = @ \cup {p}]
    /\ changes' = changes + 1
    /\ UNCHANGED <<disk, dbVars, bm25_cache, dpc, backlog, conn, lifeVars, auxVars>>

\* git rm --cached
GitRm ==
    /\ dpc = "loop"
    /\ changes < MaxChanges
    /\ \E r \in Repos : \E p \in tracked[r] :
         tracked' = [tracked EXCEPT ![r] = @ \ {p}]
    /\ changes' = changes + 1
    /\ UNCHANGED <<disk, dbVars, bm25_cache, dpc, backlog, conn, lifeVars, auxVars>>

\* a client connects while the daemon waits in accept
ConnectWaiting ==
    /\ dpc = "accept"
    /\ ClientConnect

Next ==
    \/ ConnectWaiting
    \/ LoopEnter
    \/ Accept
    \/ AcceptTimeout
    \/ Process
    \/ SendClose
    \/ WriteFile
    \/ RemoveFile
    \/ GitAdd
    \/ GitRm

Spec == Init /\ [][Next]_vars

(***************************************************************************)
(* The life of the daemon process, Daemon._run from its first statement,   *)
(* over working trees that do not change.  Clients connect at any time     *)
(* once the socket listens; a client that connected writes its request.    *)
(* The daemon's positions: "start", "handlers" (PID file written), "bind"  *)
(* (signal handlers installed), "load" (socket listening), "setrun" (model *)
(* loaded), "loop", "accept", "recv", "send", "cleanup", "stopped".        *)
(* embedder.load() is taken to return.                                     *)
(***************************************************************************)
InitLife ==
    /\ InitFS
    /\ InitDB
    /\ bm25_cache = <<>>
    /\ dpc = "start"
    /\ running = FALSE
    /\ pid_file = FALSE
    /\ socket_file \in BOOLEAN
    /\ backlog = 0
    /\ conn = <<>>
    /\ signalled = FALSE
    /\ changes = 0
    /\ pass = IdlePass
    /\ rrf = IdleRRF
    /\ srch = IdleSearch
    /\ bm = IdleBM
    /\ chk = IdleChunk
    /\ cli = IdleClient

\* line 56: PID_FILE.write_text
WritePid ==
    /\ dpc = "start"
    /\ pid_file' = TRUE
    /\ dpc' = "handlers"
    /\ UNCHANGED <<fsVars, dbVars, bm25_cache, backlog, conn, running, socket_file,
                   signalled, auxVars>>

\* lines 59-60: signal.signal for SIGTERM and SIGINT
InstallHandlers ==
    /\ dpc = "handlers"
    /\ dpc' = "bind"
    /\ UNCHANGED <<fsVars, dbVars, bm25_cache, backlog, conn, lifeVars, auxVars>>

\* lines 62-69: unlink an old socket file, bind, listen, settimeout
Bind ==
    /\ dpc = "bind"
    /\ socket_file' = TRUE
    /\ dpc' = "load"
    /\ UNCHANGED <<fsVars, dbVars, bm25_cache, backlog, conn, running, pid_file,
                   signalled, auxVars>>

\* line 75: embedder.load() returns
LoadModel ==
    /\ dpc = "load"
    /\ dpc' = "setrun"
    /\ UNCHANGED <<fsVars, dbVars, bm25_cache, backlog, conn, lifeVars, auxVars>>

\* line 77: self.running = True
SetRunning ==
    /\ dpc = "setrun"
    /\ running' = TRUE
    /\ dpc' = "loop"
    /\ UNCHANGED <<fsVars, dbVars, bm25_cache, backlog, conn, pid_file, socket_file,
                   signalled, auxVars>>

\* line 78: while self.running, left
LoopExit ==
    /\ dpc = "loop"
    /\ ~running
    /\ dpc' = "cleanup"
    /\ UNCHANGED <<fsVars, dbVars, bm25_cache, backlog, conn, lifeVars, auxVars>>

\* lines 209-217: _cleanup closes the socket and unlinks both files
Cleanup ==
    /\ dpc = "cleanup"
    /\ socket_file' = FALSE
    /\ pid_file' = FALSE
    /\ backlog' = 0
    /\ dpc' = "stopped"
    /\ UNCHANGED <<fsVars, dbVars, bm25_cache, conn, running, signalled, auxVars>>

\* lines 204-207: SIGTERM or SIGINT arrives once the handlers are installed;
\* _handle_signal runs between two statements of the main thread
Signal ==
    /\ dpc \in {"bind", "load", "setrun", "loop", "accept", "recv", "send"}
    /\ ~signalled
    /\ running' = FALSE
    /\ signalled' = TRUE
    /\ UNCHANGED <<fsVars, dbVars, bm25_cache, dpc, backlog, conn, pid_file, socket_file,
                   auxVars>>

\* the steps of the daemon process
DaemonNext ==
    \/ WritePid
    \/ InstallHandlers
    \/ Bind
    \/ LoadModel
    \/ SetRunning
    \/ LoopEnter
    \/ LoopExit
    \/ Accept
    \/ AcceptTimeout
    \/ Process
    \/ SendClose
    \/ Cleanup

NextLife ==
    \/ DaemonNext
    \/ ClientConnect
    \/ Signal

\* the daemon process keeps taking steps
SpecLife == InitLife /\ [][NextLife]_vars /\ WF_vars(DaemonNext)

(***************************************************************************)
(* One reconcile pass, statement by statement.  The statements of a pass   *)
(* work on the rows its connection sees (pass.st.rows); the table holds    *)
(* what is persisted.  The pass may be interrupted between any two         *)
(* statements: the process dies, or the embedding provider, chunk_file or  *)
(* the storage raises; its connection is then dropped without a commit.    *)
(* Files change between passes.                                            *)
(***************************************************************************)
\* the same with isolation_level=None: every statement is committed at once
during_transaction_autocommit(committed, work) == work

\* db.py line 13, sqlite3.connect with the default isolation level: DELETE
\* and INSERT open a transaction; until conn.commit() the persisted rows are
\* the committed ones, and a connection dropped before it is rolled back
during_transaction(committed, work) == committed

NoUnfinished == [repo |-> "", before |-> {}, written |-> 0, changes |-> 0 - 1]

\* lines 18-29
PassStart ==
    /\ pass.pc = "idle"
    /\ \E repo \in Repos, force \in BOOLEAN :
         \E g \in {get_or_create_repo(repos, repo)} :
            /\ repos' = g.repos
            /\ pass' = [pc |-> "remove", repo |-> repo, id |-> g.id, force |-> force,
                        before |-> chunks,
                        old |-> get_repo_files(chunks, g.id) \ Range(get_tracked_files(repo)),
                        files |-> get_tracked_files(repo),
                        queue |-> <<>>, embeddings |-> <<>>, i |-> 1,
                        st |-> StoreStart(chunks), stats |-> ZeroStats,
                        outcome |-> "running",
                        unfinished |-> IF pass = IdlePass THEN NoUnfinished
                                       ELSE pass.unfinished]
    /\ UNCHANGED <<fsVars, chunks, bm25_cache, dpc, backlog, conn, lifeVars, rrf, srch,
                   bm, chk, cli>>

\* lines 33-35, one iteration
PassRemoveOld ==
    /\ pass.pc = "remove"
    /\ \E f \in pass.old :
         /\ pass' = [pass EXCEPT !.st.rows = delete_file_chunks(@, pass.id, f),
                                 !.old = @ \ {f},
                                 !.stats.files_removed = @ + 1]
         /\ chunks' = during_transaction(chunks, pass'.st.rows)
    /\ UNCHANGED <<fsVars, repos, bm25_cache, dpc, backlog, conn, lifeVars, rrf, srch,
                   bm, chk, cli>>

\* lines 41-68, one iteration; an exception of chunk_file ends the pass
PassScanFile ==
    /\ pass.pc \in {"remove", "scan"}
    /\ pass.old = {}
    /\ pass.files # <<>>
    /\ \E one \in {scan_one(pass.st.rows, pass.repo, pass.id, pass.force, Head(pass.files))} :
         pass' = IF one.raised # None
                 THEN [pass EXCEPT !.pc = "done", !.outcome = "raised"]
                 ELSE [pass EXCEPT !.pc = "scan", !.files = Tail(@),
                                   !.queue = @ \o one.entries,
                                   !.stats.files_scanned = @ + 1]
    /\ UNCHANGED <<fsVars, dbVars, bm25_cache, dpc, backlog, conn, lifeVars, rrf, srch,
                   bm, chk, cli>>

\* lines 70-73: nothing to embed, commit and return
PassCommitEarly ==
    /\ pass.pc \in {"remove", "scan"}
    /\ pass.old = {}
    /\ pass.files = <<>>
    /\ pass.queue = <<>>
    /\ chunks' = pass.st.rows
    /\ pass' = [pass EXCEPT !.pc = "done", !.outcome = "committed"]
    /\ UNCHANGED <<fsVars, repos, bm25_cache, dpc, backlog, conn, lifeVars, rrf, srch,
                   bm, chk, cli>>

\* line 77: embed_documents returns the embeddings, or the provider raises
PassEmbed ==
    /\ pass.pc \in {"remove", "scan"}
    /\ pass.old = {}
    /\ pass.files = <<>>
    /\ pass.queue # <<>>
    /\ \E provider_ok \in BOOLEAN :
         pass' = IF provider_ok
                 THEN [pass EXCEPT !.pc = "store",
                                   !.embeddings = embed_documents(
                                       [i \in 1..Len(pass.queue) |-> pass.queue[i].chunk.text])]
                 ELSE [pass EXCEPT !.pc = "done", !.outcome = "raised"]
    /\ UNCHANGED <<fsVars, dbVars, bm25_cache, dpc, backlog, conn, lifeVars, rrf, srch,
                   bm, chk, cli>>

\* lines 81-93, one iteration
PassStoreOne ==
    /\ pass.pc = "store"
    /\ pass.i <= Len(pass.queue)
    /\ NextRowid(pass.st.rows) <= MaxRowid
    /\ pass' = [pass EXCEPT !.st = store_one(@, pass.id, pass.queue[pass.i],
                                             embedding_of(pass.embeddings, pass.i)),
                            !.i = @ + 1]
    /\ chunks' = during_transaction(chunks, pass'.st.rows)
    /\ UNCHANGED <<fsVars, repos, bm25_cache, dpc, backlog, conn, lifeVars, rrf, srch,
                   bm, chk, cli>>

\* lines 95-98
PassCommit ==
    /\ pass.pc = "store"
    /\ pass.i > Len(pass.queue)
    /\ chunks' = pass.st.rows
    /\ pass' = [pass EXCEPT !.pc = "done", !.outcome = "committed",
                            !.stats.files_updated = pass.st.files_updated,
                            !.stats.chunks_added = pass.st.chunks_added]
    /\ UNCHANGED <<fsVars, repos, bm25_cache, dpc, backlog, conn, lifeVars, rrf, srch,
                   bm, chk, cli>>

\* the process dies, or a statement of the storage raises
PassInterrupt ==
    /\ pass.pc \in {"remove", "scan", "store"}
    /\ pass' = [pass EXCEPT !.pc = "done", !.outcome = "interrupted"]
    /\ UNCHANGED <<fsVars, dbVars, bm25_cache, dpc, backlog, conn, lifeVars, rrf, srch,
                   bm, chk, cli>>

\* the caller goes on (or the process is started again).  After a pass that
\* did not commit, unfinished keeps what the model remembers of it: its
\* repository, the rows persisted before it, the number of rows it had written
\* and the count of file changes so far; a later pass that does not commit
\* keeps the first one's.
PassReturn ==
    /\ pass.pc = "done"
    /\ pass' = IF pass.outcome = "committed" THEN IdlePass
               ELSE [pc |-> "idle",
                     unfinished |-> IF pass.unfinished.repo = pass.repo
                                       /\ pass.unfinished.changes = changes
                                    THEN pass.unfinished
                                    ELSE [repo |-> pass.repo, before |-> pass.before,
                                          written |-> pass.i - 1, changes |-> changes]]
    /\ UNCHANGED <<fsVars, dbVars, bm25_cache, dpc, backlog, conn, lifeVars, rrf, srch,
                   bm, chk, cli>>

\* the working tree and the git index change between passes
PassEnv ==
    /\ pass.pc = "idle"
    /\ WriteFile \/ RemoveFile \/ GitAdd \/ GitRm

NextPass ==
    \/ PassStart
    \/ PassRemoveOld
    \/ PassScanFile
    \/ PassCommitEarly
    \/ PassEmbed
    \/ PassStoreOne
    \/ PassCommit
    \/ PassInterrupt
    \/ PassReturn
    \/ PassEnv

SpecPass == Init /\ [][NextPass]_vars

(***************************************************************************)
(* reciprocal_rank_fusion applied to drawn rankings.  A ranking is a       *)
(* sequence of <<doc_idx, score>> without a repeated document, as          *)
(* BM25Index.search and the argsort of search produce them; the drawn      *)
(* scores rise along a ranking, against its order.                         *)
(***************************************************************************)
Docs == 0..MaxDoc

DrawnRankings ==
    UNION {{[i \in 1..n |-> <<d[i], i>>] :
               d \in {e \in [1..n -> Docs] : \A i, j \in 1..n : i # j => e[i] # e[j]}} :
           n \in 0..(MaxDoc + 1)}

DrawnRankingLists == UNION {[1..n -> DrawnRankings] : n \in 0..MaxRankings}

InitRRF ==
    /\ InitServing
    /\ pass = IdlePass
    /\ srch = IdleSearch
    /\ bm = IdleBM
    /\ chk = IdleChunk
    /\ cli = IdleClient
    /\ rrf \in {[rankings |-> rl, fused |-> <<>>, done |-> FALSE] : rl \in DrawnRankingLists}

Fuse ==
    /\ ~rrf.done
    /\ rrf' = [rrf EXCEPT !.fused = reciprocal_rank_fusion(rrf.rankings, RRF_K),
                          !.done = TRUE]
    /\ UNCHANGED <<fsVars, dbVars, bm25_cache, dpc, backlog, conn, lifeVars, pass, srch,
                   bm, chk, cli>>

NextRRF == Fuse

SpecRRF == InitRRF /\ [][NextRRF]_vars

(***************************************************************************)
(* The ranking part of search (lines 50-130) applied to drawn chunk lists  *)
(* and requests.  A drawn list is the rows of a repository in rowid order; *)
(* a chunk is one of two kinds: text "ab" in a.py, text "cd" in b.html.    *)
(***************************************************************************)
DrawnChunk(i, kind) ==
    [id |-> i, file_path |-> IF kind = "x" THEN APy ELSE BHtml,
     start_line |-> i, end_line |-> i,
     chunk_text |-> IF kind = "x" THEN UnitX.text ELSE UnitY.text,
     embedding |-> encode(IF kind = "x" THEN UnitX.text ELSE UnitY.text)]

DrawnChunkLists ==
    UNION {{[i \in 1..n |-> DrawnChunk(i, kd[i])] : kd \in [1..n -> {"x", "y"}]} :
           n \in 0..MaxChunks}

MinTopK == 0 - 1

InitSearch ==
    /\ InitServing
    /\ pass = IdlePass
    /\ rrf = IdleRRF
    /\ bm = IdleBM
    /\ chk = IdleChunk
    /\ cli = IdleClient
    /\ srch \in {[pc |-> "drawn", all_chunks |-> cs] : cs \in DrawnChunkLists}

Rank ==
    /\ srch.pc = "drawn"
    /\ \E top_k \in MinTopK..MaxTopK, mode \in {"hybrid", "semantic", "lexical"},
          file_pattern \in {NoPattern, PyPattern} :
         \E order \in (IF mode = "lexical" THEN {<<>>}
                       ELSE ArgsortDesc(Similarities(
                                filter_chunks(srch.all_chunks, file_pattern), Query1))) :
            srch' = [pc |-> "done", all_chunks |-> srch.all_chunks, top_k |-> top_k,
                     mode |-> mode, file_pattern |-> file_pattern,
                     out |-> search_rank(filter_chunks(srch.all_chunks, file_pattern),
                                         srch.all_chunks, <<>>, "r1", Query1, top_k,
                                         file_pattern, mode, order, TRUE)]
    /\ UNCHANGED <<fsVars, dbVars, bm25_cache, dpc, backlog, conn, lifeVars, pass, rrf,
                   bm, chk, cli>>

NextSearch == Rank

SpecSearch == InitSearch /\ [][NextSearch]_vars

(***************************************************************************)
(* Properties of the exchanges.  While the response waits to be written    *)
(* (dpc = "send"), the connection's log holds the exchange: the payload,   *)
(* the response, what the request did, and the tables as they were before. *)
(***************************************************************************)
Handled == dpc = "send"

Exchange == conn[Len(conn)].log[1]

RepoOf(e) == e.payload.request.repo_path

BeforeId(e) == RepoId(e.before.repos, RepoOf(e))

TrackedSet(repo) == Range(get_tracked_files(repo))

\* the request ran a reconcile pass without force
NonForcedPass(e) ==
    /\ e.trace.reconciled
    /\ e.payload.request.action = "search" \/ ~e.payload.request.force_reindex

ChunkTexts(cs) == [i \in 1..Len(cs) |-> cs[i].chunk_text]

\* C1: a lexical or hybrid search without a file filter scores against a
\* BM25 index built from exactly the chunk texts stored for the repository
\* when it ranks, whatever searches, index requests and file changes came
\* before.
C1_CacheNeverStale ==
    (/\ Handled
     /\ Exchange.payload.kind = "request"
     /\ Exchange.payload.request.action = "search"
     /\ Exchange.payload.request.file_pattern = NoPattern
     /\ Exchange.trace.used # <<>>)
    => Exchange.trace.used[1].bm25
         = BM25Index_index(ChunkTexts(get_repo_chunks(chunks, RepoId(repos, RepoOf(Exchange)))))

\* the repository of the exchange was unchanged before it: the tracked set is
\* the stored set and no tracked file is newer than its stored rows
UnchangedRepository(e) ==
    /\ BeforeId(e) # 0
    /\ TrackedSet(RepoOf(e)) = get_repo_files(e.before.chunks, BeforeId(e))
    /\ \A p \in TrackedSet(RepoOf(e)) :
          /\ disk[RepoOf(e)][p].exists
          /\ disk[RepoOf(e)][p].mtime <= get_file_mtime(e.before.chunks, BeforeId(e), p)

\* C2: a non-forced pass on an unchanged repository hands nothing to the
\* embedding provider, reports files_updated = 0, chunks_added = 0 and
\* files_removed = 0, and leaves every stored row as it was.
C2_ReconcileIdempotent ==
    (Handled /\ NonForcedPass(Exchange) /\ UnchangedRepository(Exchange))
    => /\ Exchange.trace.completed
       /\ Exchange.trace.batches = <<>>
       /\ Exchange.trace.stats.files_updated = 0
       /\ Exchange.trace.stats.chunks_added = 0
       /\ Exchange.trace.stats.files_removed = 0
       /\ chunks = Exchange.before.chunks

C2_Witness ==
    /\ Handled
    /\ NonForcedPass(Exchange)
    /\ UnchangedRepository(Exchange)
    /\ Cardinality(TrackedSet(RepoOf(Exchange))) = 2

\* f is the one tracked file of the exchange's repository that changed: it
\* is newer than its stored rows, every other tracked file is not, and the
\* tracked set is the stored set
OneChanged(e, f) ==
    /\ BeforeId(e) # 0
    /\ TrackedSet(RepoOf(e)) = get_repo_files(e.before.chunks, BeforeId(e))
    /\ f \in TrackedSet(RepoOf(e))
    /\ \A p \in TrackedSet(RepoOf(e)) :
          /\ disk[RepoOf(e)][p].exists
          /\ p = f => disk[RepoOf(e)][p].mtime > get_file_mtime(e.before.chunks, BeforeId(e), p)
          /\ p # f => disk[RepoOf(e)][p].mtime <= get_file_mtime(e.before.chunks, BeforeId(e), p)

NewChunks(e, f) == chunk_file(f, disk[RepoOf(e)][f].content).chunks

\* the rows of file f of repository rid, without their ids
FileContent(rows, rid, f) ==
    {[file_mtime |-> r.file_mtime, start_line |-> r.start_line, end_line |-> r.end_line,
      chunk_text |-> r.chunk_text, embedding |-> r.embedding] : r \in FileRows(rows, rid, f)}

OtherRows(rows, rid, f) == {r \in rows : ~(r.repo_id = rid /\ r.file_path = f)}

\* C3: when exactly one tracked file changed, a non-forced pass hands only
\* that file's new chunks to the embedding provider, replaces only that
\* file's rows by its new chunks, and leaves every other row of the
\* repository and of every other repository identical.
C3_OneFileFrame ==
    \A f \in {APy, BHtml, CMd} :
       (Handled /\ NonForcedPass(Exchange) /\ OneChanged(Exchange, f))
       => /\ Exchange.trace.batches
               \in {<<>>, << [i \in 1..Len(NewChunks(Exchange, f)) |-> NewChunks(Exchange, f)[i].text] >>}
          /\ OtherRows(chunks, BeforeId(Exchange), f)
               = OtherRows(Exchange.before.chunks, BeforeId(Exchange), f)
          /\ (Exchange.trace.completed /\ NewChunks(Exchange, f) # <<>>)
             => /\ FileContent(chunks, BeforeId(Exchange), f)
                     = {[file_mtime |-> disk[RepoOf(Exchange)][f].mtime,
                         start_line |-> NewChunks(Exchange, f)[i].start_line,
                         end_line |-> NewChunks(Exchange, f)[i].end_line,
                         chunk_text |-> NewChunks(Exchange, f)[i].text,
                         embedding |-> encode(NewChunks(Exchange, f)[i].text)] :
                            i \in 1..Len(NewChunks(Exchange, f))}
                /\ Cardinality(FileRows(chunks, BeforeId(Exchange), f))
                     = Len(NewChunks(Exchange, f))
                /\ Exchange.trace.stats.files_updated = 1
                /\ Exchange.trace.stats.chunks_added = Len(NewChunks(Exchange, f))

C3_Witness ==
    /\ Handled
    /\ NonForcedPass(Exchange)
    /\ Exchange.trace.completed
    /\ \E f \in {APy, BHtml} :
          /\ OneChanged(Exchange, f)
          /\ NewChunks(Exchange, f) # <<>>
          /\ OtherRows(chunks, BeforeId(Exchange), f) # {}
          /\ \E r \in OtherRows(chunks, BeforeId(Exchange), f) : r.repo_id = BeforeId(Exchange)
          /\ \E r \in OtherRows(chunks, BeforeId(Exchange), f) : r.repo_id # BeforeId(Exchange)

\* C4: after a pass that completes no chunk is stored for a path absent from
\* the tracked-file list, and files_removed is the number of paths that were
\* stored before the pass and are absent from the list.
C4_UntrackedRemoved ==
    (Handled /\ Exchange.trace.reconciled /\ Exchange.trace.completed)
    => /\ get_repo_files(chunks, RepoId(repos, RepoOf(Exchange))) \subseteq TrackedSet(RepoOf(Exchange))
       /\ Exchange.trace.stats.files_removed
            = Cardinality({r.file_path : r \in {q \in Exchange.before.chunks :
                                                   q.repo_id = BeforeId(Exchange)}}
                          \ TrackedSet(RepoOf(Exchange)))

C4_Witness ==
    /\ Handled
    /\ Exchange.trace.reconciled
    /\ Exchange.trace.completed
    /\ Exchange.trace.stats.files_removed = 1
    /\ \E r \in chunks : r.repo_id = RepoId(repos, RepoOf(Exchange))

BadPayload(e) ==
    \/ e.payload.kind \in MalformedKinds
    \/ e.payload.request.action \notin {"ping", "search", "index", "status"}

\* C7: a payload with an invalid length header, invalid JSON, a missing or an
\* unknown field, or an action that is none of ping, search, index, status
\* is answered with success = false and a non-empty error, and the daemon
\* stays running with its socket in place.
C7_BadRequestAnswered ==
    (Handled /\ BadPayload(Exchange))
    => /\ ~Exchange.resp.success
       /\ Exchange.resp.error # ""
       /\ running
       /\ socket_file
       /\ ENABLED SendClose

C7_Witness ==
    /\ Handled
    /\ Exchange.payload.kind = "unknown_field"
    /\ ~Exchange.resp.success

(***************************************************************************)
(* Properties of the daemon's life.                                        *)
(***************************************************************************)
\* C6: the daemon handles one request at a time.  A connection is accepted
\* only at the accept of the loop and only when no accepted connection is
\* still open, so at most one is open; the tables and the BM25 cache change
\* only in the step that processes the one open connection's request; a
\* client that connects meanwhile stays in the backlog.
C6_OneRequestAtATime ==
    [][/\ Len(conn') > Len(conn)
          => (conn = <<>> /\ dpc = "accept" /\ dpc' = "recv" /\ backlog' = backlog - 1)
       /\ Len(conn') <= 1
       /\ (repos' # repos \/ chunks' # chunks \/ bm25_cache' # bm25_cache)
          => (dpc = "recv" /\ dpc' = "send" /\ Len(conn) = 1 /\ Len(conn') = 1
              /\ conn[1].log = <<>> /\ Len(conn'[1].log) = 1 /\ backlog' = backlog)
       /\ (conn' # <<>> /\ backlog' > backlog) => conn' = conn]_vars

C6_Witness ==
    /\ Len(conn) = 1
    /\ dpc = "send"
    /\ backlog > 0
    /\ Exchange.trace.reconciled
    /\ Exchange.before.chunks # chunks

\* C8: once a shutdown signal has been delivered after the handlers were
\* installed, the loop eventually exits and the socket file and the PID file
\* are gone.
C8_ShutdownCompletes ==
    [](signalled => <>(dpc = "stopped" /\ ~socket_file /\ ~pid_file))

(***************************************************************************)
(* Properties of a pass.                                                   *)
(***************************************************************************)
\* the rows a completed pass gives a tracked file, without their ids
NewFileContent(repo, p) ==
    {[file_mtime |-> disk[repo][p].mtime,
      start_line |-> c.start_line, end_line |-> c.end_line, chunk_text |-> c.text,
      embedding |-> encode(c.text)] : c \in Range(chunk_file(p, disk[repo][p].content).chunks)}

FullyOld(p) == FileRows(chunks, pass.id, p) = FileRows(pass.before, pass.id, p)

FullyNew(p) ==
    IF p \in TrackedSet(pass.repo)
    THEN /\ FileContent(chunks, pass.id, p) = NewFileContent(pass.repo, p)
         /\ Cardinality(FileRows(chunks, pass.id, p))
              = Len(chunk_file(p, disk[pass.repo][p].content).chunks)
    ELSE FileRows(chunks, pass.id, p) = {}

\* C5: whenever a pass is interrupted (the process dies, or the embedding
\* provider, chunk_file or the storage raises), and at every point of a
\* pass, the persisted rows of each file are exactly the rows it had before
\* the pass or exactly its complete new rows; after an interruption they
\* are the rows before the pass.
C5_FileOldOrNew ==
    pass.pc # "idle"
    => /\ \A p \in FilesOf(pass.repo) : FullyOld(p) \/ FullyNew(p)
       /\ pass.outcome \in {"running", "raised", "interrupted"} => chunks = pass.before

C5_Witness ==
    /\ pass.pc = "done"
    /\ pass.outcome = "interrupted"
    /\ pass.i = 2
    /\ Len(pass.queue) = 2
    /\ pass.queue[1].rel_path = pass.queue[2].rel_path
    /\ FileRows(pass.before, pass.id, pass.queue[1].rel_path) # {}
    /\ FileRows(pass.st.rows, pass.id, pass.queue[1].rel_path)
         \cap FileRows(pass.before, pass.id, pass.queue[1].rel_path) = {}

\* a pass that commits leaves the rows and reports the stats of index_repo
PassAgreesWithIndexRepo ==
    (pass.pc = "done" /\ pass.outcome = "committed")
    => /\ chunks = index_repo(repos, pass.before, pass.repo, pass.force, TRUE).chunks
       /\ pass.stats = index_repo(repos, pass.before, pass.repo, pass.force, TRUE).stats

(***************************************************************************)
(* Properties of the ranking.                                              *)
(***************************************************************************)
Filtered == filter_chunks(srch.all_chunks, srch.file_pattern)

\* the place of a result: its file and its lines
PlaceOf(r) == <<r.file_path, r.start_line, r.end_line>>

ResultWellFormed ==
    /\ \A i, j \in 1..Len(srch.out.results) :
          i # j => PlaceOf(srch.out.results[i]) # PlaceOf(srch.out.results[j])
    /\ \A i \in 1..Len(srch.out.results) :
          \E j \in 1..Len(srch.all_chunks) :
             /\ PlaceOf(srch.all_chunks[j]) = PlaceOf(srch.out.results[i])
             /\ srch.all_chunks[j].chunk_text = srch.out.results[i].chunk_text
             /\ srch.file_pattern # NoPattern
                => fnmatch(srch.all_chunks[j].file_path, srch.file_pattern)
    /\ Filtered = <<>> => srch.out.results = <<>>

\* a count is never negative: the bound a negative top_k gives is read as 0
ResultBounded ==
    /\ Len(srch.out.results) <= Max2(srch.top_k, 0)
    /\ \A i \in 1..Len(srch.out.rankings) :
          Len(srch.out.rankings[i]) <= Max2(Min2(3 * srch.top_k, Len(Filtered)), 0)

\* C9: for every mode, every top_k the request carries and every file
\* pattern, the results are duplicate-free, at most top_k, each a stored
\* chunk whose path matches the pattern, empty when no chunk passes the
\* filter, and each ranking holds at most min(3 * top_k, filtered chunks)
\* candidates.
C9_ResultWithinTopK ==
    srch.pc = "done" => (ResultWellFormed /\ ResultBounded)

\* the same holds for every top_k >= 0
ResultWithinNonNegativeTopK ==
    (srch.pc = "done" /\ srch.top_k >= 0) => (ResultWellFormed /\ ResultBounded)

(***************************************************************************)
(* Properties of reciprocal_rank_fusion.                                   *)
(***************************************************************************)
\* the 1-based position of doc in ranking, 0 when absent
PositionIn(ranking, doc) ==
    IF \E i \in 1..Len(ranking) : ranking[i][1] = doc
    THEN CHOOSE i \in 1..Len(ranking) : ranking[i][1] = doc
    ELSE 0

\* the sum over the rankings that contain doc of 1/(k + r + 1), r its 0-based
\* position, as a numerator over den
RECURSIVE ExpectedScore(_, _, _, _)
ExpectedScore(doc, rankings, k, den) ==
    IF rankings = <<>> THEN 0
    ELSE (IF PositionIn(Head(rankings), doc) = 0 THEN 0
          ELSE den \div (k + (PositionIn(Head(rankings), doc) - 1) + 1))
         + ExpectedScore(doc, Tail(rankings), k, den)

DocsOf(rankings) == UNION {{rankings[i][j][1] : j \in 1..Len(rankings[i])} : i \in 1..Len(rankings)}

DocOrder(ranking) == [i \in 1..Len(ranking) |-> ranking[i][1]]

Disjoint(rankings) ==
    \A i, j \in 1..Len(rankings) :
       i # j => DocsOf(<<rankings[i]>>) \cap DocsOf(<<rankings[j]>>) = {}

\* C10: reciprocal_rank_fusion gives every document the sum, over the
\* rankings that contain it, of 1/(k + r + 1) with r its 0-based position and
\* k = 60, whatever the input scores; the result holds each document of the
\* union once, by descending fused score; so no ranking gives no document,
\* disjoint rankings give as many documents as they hold together, and one
\* ranking, or several of one order, keep that order.
C10_FusedScores ==
    rrf.done
    => /\ {rrf.fused[i][1] : i \in 1..Len(rrf.fused)} = DocsOf(rrf.rankings)
       /\ Len(rrf.fused) = Cardinality(DocsOf(rrf.rankings))
       /\ \A i \in 1..Len(rrf.fused) :
             rrf.fused[i][2] = ExpectedScore(rrf.fused[i][1], rrf.rankings, RRF_K,
                                             RRFDen(rrf.rankings, RRF_K))
       /\ \A i \in 1..(Len(rrf.fused) - 1) : rrf.fused[i][2] >= rrf.fused[i + 1][2]
       /\ rrf.rankings = <<>> => rrf.fused = <<>>
       /\ Disjoint(rrf.rankings)
          => Len(rrf.fused) = SumSeq([i \in 1..Len(rrf.rankings) |-> Len(rrf.rankings[i])])
       /\ (rrf.rankings # <<>>
           /\ \A i \in 1..Len(rrf.rankings) : DocOrder(rrf.rankings[i]) = DocOrder(rrf.rankings[1]))
          => DocOrder(rrf.fused) = DocOrder(rrf.rankings[1])

C10_Witness ==
    /\ rrf.done
    /\ Len(rrf.rankings) = 2
    /\ DocOrder(rrf.rankings[1]) = <<0, 1>>
    /\ DocOrder(rrf.rankings[2]) = <<1, 2, 0>>
    /\ DocOrder(rrf.fused) = <<1, 0, 2>>

(***************************************************************************)
(* tokenize applied to drawn texts: every text of at most MaxText          *)
(* characters over TokAlphabet, which holds a lowercase letter, an         *)
(* uppercase letter, a digit, the underscore and a character that is none  *)
(* of these.                                                               *)
(***************************************************************************)
MaxText == 5

TokAlphabet == {"a", "B", "1", "_", "-"}

DrawnTexts == UNION {[1..n -> TokAlphabet] : n \in 0..MaxText}

InitTok ==
    /\ InitServing
    /\ pass = IdlePass
    /\ rrf = IdleRRF
    /\ srch = IdleSearch
    /\ chk = IdleChunk
    /\ cli = IdleClient
    /\ bm \in {[pc |-> "text", text |-> t] : t \in DrawnTexts}

Tokenize ==
    /\ bm.pc = "text"
    /\ bm' = [pc |-> "tokens", text |-> bm.text, tokens |-> tokenize(bm.text)]
    /\ UNCHANGED <<fsVars, dbVars, bm25_cache, dpc, backlog, conn, lifeVars, pass, rrf,
                   srch, chk, cli>>

NextTok == Tokenize

SpecTok == InitTok /\ [][NextTok]_vars

\* a break stands before position i: an uppercase letter directly after a
\* lowercase letter
BreakBefore(text, i) ==
    i > 1 /\ i <= Len(text) /\ text[i - 1] \in LowerCase /\ text[i] \in UpperCase

\* positions i..j of the text are a maximal alphanumeric run of the text with
\* its breaks (an underscore is a break and not alphanumeric)
IsRun(text, i, j) ==
    /\ 1 <= i /\ i <= j /\ j <= Len(text)
    /\ \A m \in i..j : IsAlnum(text[m]) /\ text[m] # "_"
    /\ \A m \in (i + 1)..j : ~BreakBefore(text, m)
    /\ i = 1 \/ ~IsAlnum(text[i - 1]) \/ BreakBefore(text, i)
    /\ j = Len(text) \/ ~IsAlnum(text[j + 1]) \/ BreakBefore(text, j + 1)

RunEnd(text, i) == CHOOSE j \in i..Len(text) : IsRun(text, i, j)

RunStarts(text) == {i \in 1..Len(text) : \E j \in i..Len(text) : IsRun(text, i, j)}

\* the runs of at least two characters, in order of occurrence, in lowercase
LongRuns(text) ==
    LET starts == SortedSeq({i \in RunStarts(text) : RunEnd(text, i) > i})
    IN [n \in 1..Len(starts) |-> lower(SubSeq(text, starts[n], RunEnd(text, starts[n])))]

\* C13: tokenize returns, in order of occurrence, the maximal alphanumeric
\* runs of the text with a break before each uppercase letter that directly
\* follows a lowercase letter and each underscore a break; every token is
\* lowercase, alphanumeric and at least 2 characters long.
C13_TokenizeRuns ==
    bm.pc = "tokens" =>
        /\ bm.tokens = LongRuns(bm.text)
        /\ \A n \in 1..Len(bm.tokens) :
              /\ Len(bm.tokens[n]) >= 2
              /\ \A m \in 1..Len(bm.tokens[n]) : bm.tokens[n][m] \in LowerCase \cup Digits

\* a text with a camelCase boundary, an underscore, a kept token and a run of
\* one character that is discarded
C13_Witness ==
    /\ bm.pc = "tokens"
    /\ \E i \in 1..Len(bm.text) : BreakBefore(bm.text, i)
    /\ \E i \in 1..Len(bm.text) : bm.text[i] = "_"
    /\ Len(bm.tokens) >= 1
    /\ Cardinality(RunStarts(bm.text)) > Len(bm.tokens)

(***************************************************************************)
(* BM25Index applied to drawn corpora: index builds the statistics of up   *)
(* to MaxDocs documents, search ranks them for a drawn query and top_k.    *)
(* The drawn texts hold the words "ab", "cd" and "ef", a text without a    *)
(* token ("a b") and the empty text.                                       *)
(***************************************************************************)
MaxDocs == 3

MaxSearchK == 4

WordEF == <<"e", "f">>

WordAB == <<"a", "b">>

WordCD == <<"c", "d">>

Spaced(w1, w2) == w1 \o <<" ">> \o w2

DrawnDocTexts ==
    {<<>>, <<"a", " ", "b">>, WordAB, WordCD, Spaced(WordAB, WordCD),
     Spaced(WordAB, WordEF), Spaced(WordAB, WordAB)}

DrawnQueries == {<<>>, WordAB, WordCD, Spaced(WordAB, WordCD), Spaced(WordAB, WordAB), <<"b", "b">>}

DrawnCorpora == UNION {[1..n -> DrawnDocTexts] : n \in 0..MaxDocs}

InitBM ==
    /\ InitServing
    /\ pass = IdlePass
    /\ rrf = IdleRRF
    /\ srch = IdleSearch
    /\ chk = IdleChunk
    /\ cli = IdleClient
    /\ bm \in {[pc |-> "documents", documents |-> d] : d \in DrawnCorpora}

BuildIndex ==
    /\ bm.pc = "documents"
    /\ bm' = [pc |-> "indexed", documents |-> bm.documents,
              index |-> BM25Index_index(bm.documents)]
    /\ UNCHANGED <<fsVars, dbVars, bm25_cache, dpc, backlog, conn, lifeVars, pass, rrf,
                   srch, chk, cli>>

SearchIndex ==
    /\ bm.pc = "indexed"
    /\ \E query \in DrawnQueries, top_k \in 0..MaxSearchK :
          bm' = [pc |-> "searched", documents |-> bm.documents, index |-> bm.index,
                 query |-> query, top_k |-> top_k,
                 result |-> BM25Index_search(bm.index, query, top_k)]
    /\ UNCHANGED <<fsVars, dbVars, bm25_cache, dpc, backlog, conn, lifeVars, pass, rrf,
                   srch, chk, cli>>

NextBM == BuildIndex \/ SearchIndex

SpecBM == InitBM /\ [][NextBM]_vars

\* the score of document d (counted from 0) for the searched query
ScoreOf(d) == score_doc(bm.index, tokenize(bm.query), d)

\* document d1 stands before document d2 in the order of the search
RankedBefore(d1, d2) ==
    ScoreOf(d1) > ScoreOf(d2) \/ (ScoreOf(d1) = ScoreOf(d2) /\ d1 < d2)

\* C11: search(query, top_k) with top_k >= 0 on N documents returns exactly
\* min(top_k, N) pairs (document, its score) of distinct documents, by
\* descending score, documents of equal score (0 included) by ascending
\* index; they are the first documents of that order.
C11_SearchTopK ==
    bm.pc = "searched" =>
        LET res == bm.result
            N == Len(bm.documents)
        IN /\ Len(res) = Min2(bm.top_k, N)
           /\ \A i \in 1..Len(res) :
                 /\ res[i][1] \in 0..(N - 1)
                 /\ res[i][2] = ScoreOf(res[i][1])
           /\ \A i, j \in 1..Len(res) : i < j => RankedBefore(res[i][1], res[j][1])
           /\ \A d \in 0..(N - 1) :
                 (\A i \in 1..Len(res) : res[i][1] # d)
                 => \A i \in 1..Len(res) : RankedBefore(res[i][1], d)

\* a search that cuts the ranking (top_k < N): the last document matches and
\* comes first, the two others score 0 and the one of lower index is returned
C11_Witness ==
    /\ bm.pc = "searched"
    /\ bm.top_k = 2
    /\ Len(bm.documents) = 3
    /\ bm.result = <<<<2, ScoreOf(2)>>, <<0, 0>>>>
    /\ ScoreOf(2) > 0
    /\ ScoreOf(1) = 0

\* the tokens of the searched query and of document d (counted from 0)
QueryTokens == tokenize(bm.query)

DocTokens(d) == tokenize(bm.documents[d + 1])

\* the query's tokens that occur in document d
Matched(d) == Range(QueryTokens) \cap Range(DocTokens(d))

\* the divisors of lines 91, 94-96 for a term that reaches them: df + 0.5,
\* avg_doc_len, and tf + k1 (1 - b + b doc_len / avg_doc_len); each as an
\* integer multiple of its value
Divisors(bm25, term, d) ==
    LET tf == bm25.doc_term_freqs[d + 1][term]
        tot == bm25.avg_doc_len.num
    IN <<2 * bm25.doc_freqs[term] + 1,
         tot,
         IF tot = 0 THEN 0
         ELSE tf * k1.den * b.den * tot
              + k1.num * ((b.den - b.num) * tot
                          + b.num * bm25.doc_lens[d + 1] * bm25.avg_doc_len.den)>>

\* a query token reaches the divisions for document d (lines 79-85 let it pass)
Scored(bm25, term, d) ==
    term \in DOMAIN bm25.doc_freqs /\ term \in DOMAIN bm25.doc_term_freqs[d + 1]

\* C12: a BM25 score is never negative and is 0 exactly when the document
\* holds none of the query's tokens; every query token that occurs in the
\* document adds a strictly positive amount; of two documents of equal
\* token length the one that matches a strict superset of the query's
\* tokens, with equal term frequencies on the shared ones, scores strictly
\* higher; no division is by zero, in index (line 57) or in scoring.
C12_ScoreSign ==
    bm.pc = "searched" =>
        LET N == Len(bm.documents)
        IN /\ bm.index.avg_doc_len.den # 0
           /\ \A d \in 0..(N - 1) :
                 /\ ScoreOf(d) >= 0
                 /\ ScoreOf(d) = 0 <=> Matched(d) = {}
                 /\ \A t \in Matched(d) :
                       /\ term_score(bm.index, t, d) > 0
                       /\ \A i \in 1..3 : Divisors(bm.index, t, d)[i] # 0
                 /\ \A t \in Range(QueryTokens) :
                       Scored(bm.index, t, d) <=> t \in Matched(d)
           /\ \A d1, d2 \in 0..(N - 1) :
                 (/\ Len(DocTokens(d1)) = Len(DocTokens(d2))
                  /\ Matched(d2) \subseteq Matched(d1)
                  /\ Matched(d2) # Matched(d1)
                  /\ \A t \in Matched(d2) :
                        Counter(DocTokens(d1))[t] = Counter(DocTokens(d2))[t])
                 => ScoreOf(d1) > ScoreOf(d2)

\* two documents of two tokens each, the first matching both tokens of the
\* query and the second one of them, beside a document without any token
C12_Witness ==
    /\ bm.pc = "searched"
    /\ Len(bm.documents) = 3
    /\ Len(DocTokens(0)) = 2 /\ Len(DocTokens(1)) = 2 /\ DocTokens(2) = <<>>
    /\ Cardinality(Matched(0)) = 2
    /\ Cardinality(Matched(1)) = 1
    /\ ScoreOf(0) > ScoreOf(1)
    /\ ScoreOf(1) > 0

\* every document of the corpus tokenizes to nothing and a query with a token
\* is scored against it
AllDocumentsEmptyScored ==
    /\ bm.pc = "searched"
    /\ Len(bm.documents) = 2
    /\ \A d \in 0..1 : DocTokens(d) = <<>>
    /\ QueryTokens # <<>>
    /\ bm.top_k = 2
    /\ bm.result = <<<<0, 0>>, <<1, 0>>>>

(***************************************************************************)
(* chunker.py on texts of lines.  A line is [indent, txt, tag]: its        *)
(* leading spaces, its text behind them, and a tag that tells the lines    *)
(* of a drawn content apart.  A text is [lines, nl]: the lines joined by   *)
(* "\n", with a newline behind the last one when nl.  The empty string is  *)
(* EmptyText.                                                              *)
(***************************************************************************)
CHUNK_SIZE_LINES == 50

CHUNK_OVERLAP_LINES == 10

Line(indent, txt, tag) == [indent |-> indent, txt |-> txt, tag |-> tag]

EmptyText == [lines |-> <<>>, nl |-> FALSE]

\* content.splitlines()
splitlines(content) == content.lines

\* "\n".join(lines)
join(lines) == [lines |-> lines, nl |-> FALSE]

\* lines[start:end] for 0 <= start
slice(lines, start, end) == SubSeq(lines, start + 1, Min2(end, Len(lines)))

Chunk(text, start_line, end_line) ==
    [text |-> text, start_line |-> start_line, end_line |-> end_line]

\* the one chunk of lines 160-164, with the lines joined again instead of the
\* content itself
single_chunk_joined(content) ==
    Chunk(join(splitlines(content)), 1, Len(splitlines(content)))

\* lines 160-164: the content itself is the text
single_chunk(content) == Chunk(content, 1, Len(splitlines(content)))

\* a window that moves on by its whole size
window_step_no_overlap == CHUNK_SIZE_LINES

\* line 179: start += CHUNK_SIZE_LINES - CHUNK_OVERLAP_LINES
window_step == CHUNK_SIZE_LINES - CHUNK_OVERLAP_LINES

\* lines 169-176: the chunk of the window that begins at start
window_chunk(lines, start) ==
    LET end == Min2(start + CHUNK_SIZE_LINES, Len(lines))
    IN Chunk(join(slice(lines, start, end)), start + 1, end)

\* lines 167-181, from the window that begins at start
RECURSIVE sliding_windows(_, _)
sliding_windows(lines, start) ==
    IF ~(start < Len(lines)) THEN <<>>
    ELSE <<window_chunk(lines, start)>>
         \o (IF start + window_step >= Len(lines) THEN <<>>
             ELSE sliding_windows(lines, start + window_step))

\* chunk_lines(content)
chunker_chunk_lines(content) ==
    IF splitlines(content) = <<>> THEN <<>>
    ELSE IF Len(splitlines(content)) <= CHUNK_SIZE_LINES THEN <<single_chunk(content)>>
    ELSE sliding_windows(splitlines(content), 0)

(***************************************************************************)
(* chunk_lines run statement by statement on drawn contents of up to       *)
(* MaxLines lines, with and without a newline behind the last line.        *)
(***************************************************************************)
MaxLines == 130

DrawnLineContents ==
    {EmptyText} \cup
    {[lines |-> [i \in 1..n |-> Line(0, "x", i)], nl |-> nl] :
        n \in 1..MaxLines, nl \in BOOLEAN}

InitLines ==
    /\ InitServing
    /\ pass = IdlePass
    /\ rrf = IdleRRF
    /\ srch = IdleSearch
    /\ bm = IdleBM
    /\ chk \in {[pc |-> "call", content |-> c, start |-> 0, chunks |-> <<>>] :
                   c \in DrawnLineContents}
    /\ cli = IdleClient

\* lines 152-167
LinesEnter ==
    /\ chk.pc = "call"
    /\ chk' = IF splitlines(chk.content) = <<>>
              THEN [chk EXCEPT !.pc = "done"]
              ELSE IF Len(splitlines(chk.content)) <= CHUNK_SIZE_LINES
              THEN [chk EXCEPT !.pc = "done", !.chunks = <<single_chunk(chk.content)>>]
              ELSE [chk EXCEPT !.pc = "while", !.start = 0]
    /\ UNCHANGED <<fsVars, dbVars, bm25_cache, dpc, backlog, conn, lifeVars, pass, rrf,
                   srch, bm, cli>>

\* lines 168-181: one turn of the loop
LinesWindow ==
    /\ chk.pc = "while"
    /\ chk' = IF ~(chk.start < Len(splitlines(chk.content)))
              THEN [chk EXCEPT !.pc = "return"]
              ELSE [chk EXCEPT
                      !.chunks = Append(@, window_chunk(splitlines(chk.content), chk.start)),
                      !.start = @ + window_step,
                      !.pc = IF chk.start + window_step >= Len(splitlines(chk.content))
                             THEN "return" ELSE "while"]
    /\ UNCHANGED <<fsVars, dbVars, bm25_cache, dpc, backlog, conn, lifeVars, pass, rrf,
                   srch, bm, cli>>

\* line 183
LinesReturn ==
    /\ chk.pc = "return"
    /\ chk' = [chk EXCEPT !.pc = "done"]
    /\ UNCHANGED <<fsVars, dbVars, bm25_cache, dpc, backlog, conn, lifeVars, pass, rrf,
                   srch, bm, cli>>

NextLines == LinesEnter \/ LinesWindow \/ LinesReturn

\* a call that has begun runs on: the process takes its next step
SpecLines == InitLines /\ [][NextLines]_vars /\ WF_vars(NextLines)

NumLines == Len(splitlines(chk.content))

\* C14: line-based chunking of content with n lines, 1 <= n <= W, yields
\* exactly one chunk, with start_line 1, end_line n and the whole content as
\* its text.
C14_SmallContentOneChunk ==
    (chk.pc = "done" /\ NumLines >= 1 /\ NumLines <= CHUNK_SIZE_LINES)
    => chk.chunks = <<Chunk(chk.content, 1, NumLines)>>

\* content of exactly W lines that ends with a newline has been chunked
C14_Witness ==
    /\ chk.pc = "done"
    /\ NumLines = CHUNK_SIZE_LINES
    /\ chk.content.nl
    /\ Len(chk.chunks) = 1

\* the lines of chunk k
LinesOfChunk(k) == chk.chunks[k].start_line .. chk.chunks[k].end_line

WindowsWellFormed ==
    LET cs == chk.chunks
        W == CHUNK_SIZE_LINES
        O == CHUNK_OVERLAP_LINES
    IN /\ Len(cs) >= 2
       /\ \A k \in 1..Len(cs) :
             /\ cs[k].start_line = 1 + (k - 1) * (W - O)
             /\ Cardinality(LinesOfChunk(k)) <= W
             /\ cs[k].end_line <= NumLines
             /\ cs[k].start_line <= cs[k].end_line
       /\ UNION {LinesOfChunk(k) : k \in 1..Len(cs)} = 1..NumLines
       /\ \A k \in 1..(Len(cs) - 2) :
             Cardinality(LinesOfChunk(k) \cap LinesOfChunk(k + 1)) = O

\* C15: line-based chunking of content with n > W lines terminates and
\* yields at least two chunks: chunk k (from 0) starts at line 1 + k (W - O),
\* no chunk has more than W lines or ends behind line n, the chunks cover
\* exactly 1..n, and adjacent chunks share exactly O lines, except possibly
\* the last pair.
C15_SlidingWindows ==
    /\ []((chk.pc = "done" /\ NumLines > CHUNK_SIZE_LINES) => WindowsWellFormed)
    /\ <>(chk.pc = "done")

\* content of four windows has been chunked, the last pair sharing fewer than O lines
C15_Witness ==
    /\ chk.pc = "done"
    /\ Len(chk.chunks) = 4
    /\ Cardinality(LinesOfChunk(3) \cap LinesOfChunk(4)) < CHUNK_OVERLAP_LINES
    /\ Cardinality(LinesOfChunk(1) \cap LinesOfChunk(2)) = CHUNK_OVERLAP_LINES

\* the loop run statement by statement yields what chunk_lines yields
LinesRunAgrees ==
    chk.pc = "done" => chk.chunks = chunker_chunk_lines(chk.content)

(***************************************************************************)
(* Contents for chunk_python and chunk_file.  A content is the layout of a *)
(* sequence of items, [kind, name, body]: a statement, a blank line, a     *)
(* comment, a Markdown header (a comment for Python), a line that does not *)
(* parse, or a compound (def, async def, class, if) of a header line and   *)
(* a body of items one level deeper.  A body holds a statement and does    *)
(* not end with a blank line or a comment.                                 *)
(***************************************************************************)
Item(kind, name, body) == [kind |-> kind, name |-> name, body |-> body]

Stmt == Item("stmt", "", <<>>)

Blank == Item("blank", "", <<>>)

Comment == Item("comment", "", <<>>)

Header1 == Item("h1", "", <<>>)

Header2 == Item("h2", "", <<>>)

Broken == Item("broken", "", <<>>)

\* a statement that is a string literal: a docstring where it opens a body
Doc == Item("doc", "", <<>>)

IsCompound(it) == it.kind \in {"def", "async def", "class", "if"}

IsFunction(it) == it.kind \in {"def", "async def"}

\* lines that are no statement for the parser: blank lines and comments
IsTrivia(it) == it.kind \in {"blank", "comment", "h1", "h2"}

LineText(kind) ==
    CASE kind = "stmt" -> "x = 1"
      [] kind = "blank" -> ""
      [] kind = "comment" -> "# c"
      [] kind = "h1" -> "# T"
      [] kind = "h2" -> "## T"
      [] kind = "broken" -> "def broken("
      [] kind = "doc" -> "\"\"\"d\"\"\""
      [] OTHER -> kind

\* the source lines of items laid out at an indentation
RECURSIVE SourceLines(_, _)
SourceLines(items, indent) ==
    IF items = <<>> THEN <<>>
    ELSE LET it == Head(items)
         IN <<Line(IF it.kind = "blank" THEN 0 ELSE indent, LineText(it.kind), it.name)>>
            \o SourceLines(it.body, indent + 4)
            \o SourceLines(Tail(items), indent)

SourceText(content) == [lines |-> SourceLines(content.items, 0), nl |-> content.nl]

\* the number of source lines of a sequence of items
RECURSIVE Height(_)
Height(items) ==
    IF items = <<>> THEN 0 ELSE 1 + Height(Head(items).body) + Height(Tail(items))

\* the position of the last statement of a body
LastStatement(items) ==
    CHOOSE j \in 1..Len(items) :
        ~IsTrivia(items[j]) /\ \A m \in (j + 1)..Len(items) : IsTrivia(items[m])

\* end_lineno of the node of an item that begins at line lineno
RECURSIVE EndLineno(_, _)
EndLineno(it, lineno) ==
    IF ~IsCompound(it) THEN lineno
    ELSE LET j == LastStatement(it.body)
         IN EndLineno(it.body[j], lineno + 1 + Height(SubSeq(it.body, 1, j - 1)))

\* a node of the tree: its item, lineno, end_lineno, and the name of the class
\* it is a child of (ast.iter_child_nodes), None when it is no child of a class
Node(it, lineno, parent_class) ==
    [item |-> it, lineno |-> lineno, end_lineno |-> EndLineno(it, lineno),
     parent_class |-> parent_class]

\* the statement nodes among items whose first line is lineno
Nodes(items, lineno, parent_class) ==
    LET idx == SortedSeq({j \in 1..Len(items) : ~IsTrivia(items[j])})
    IN [n \in 1..Len(idx) |->
           Node(items[idx[n]], lineno + Height(SubSeq(items, 1, idx[n] - 1)), parent_class)]

\* the children of a node, none for a function: a walk that does not enter
\* function bodies
child_nodes_outside_functions(node) ==
    Nodes(IF IsFunction(node.item) THEN <<>> ELSE node.item.body, node.lineno + 1,
          IF node.item.kind = "class" THEN node.item.name ELSE None)

\* ast.iter_child_nodes(node), the statements of the body
child_nodes(node) ==
    Nodes(node.item.body, node.lineno + 1,
          IF node.item.kind = "class" THEN node.item.name ELSE None)

\* ast.walk: breadth first, from the nodes in the queue
RECURSIVE walk(_)
walk(queue) ==
    IF queue = <<>> THEN <<>>
    ELSE <<Head(queue)>> \o walk(Tail(queue) \o child_nodes(Head(queue)))

\* ast.parse(content): the nodes of the tree in ast.walk's order, or SyntaxError
parse(content) ==
    IF \E j \in 1..Len(content.items) : content.items[j].kind = "broken"
    THEN [raised |-> "SyntaxError", nodes |-> <<>>]
    ELSE [raised |-> None, nodes |-> walk(Nodes(content.items, 1, None))]

IsEmptyLine(l) == l.indent = 0 /\ l.txt = ""

\* _indent(text): every line but the empty ones gets four more spaces
indent_text(lines) ==
    [i \in 1..Len(lines) |->
        IF IsEmptyLine(lines[i]) THEN lines[i]
        ELSE [lines[i] EXCEPT !.indent = @ + 4]]

\* f"class {parent_class}:"
class_header(parent_class) == Line(0, "class", parent_class)

\* "# ... (remaining more lines)" behind indent spaces
more_lines(indent, remaining) == Line(indent, "# ... more lines", remaining)

\* _find_parent_class(tree, node): the class the node is a child of
find_parent_class(node) == node.parent_class

\* lines 54-78: the chunk of a function or method
function_chunk(lines, node) ==
    LET node_lines == slice(lines, node.lineno - 1, node.end_lineno)
        parent_class == find_parent_class(node)
        preview_lines == SubSeq(node_lines, 1, CHUNK_SIZE_LINES - 2)
        remaining == Len(node_lines) - Len(preview_lines)
    IN Chunk(join(IF Len(node_lines) > CHUNK_SIZE_LINES
                  THEN (IF parent_class # None
                        THEN <<class_header(parent_class)>> \o indent_text(preview_lines)
                             \o <<more_lines(8, remaining)>>
                        ELSE preview_lines \o <<more_lines(4, remaining)>>)
                  ELSE (IF parent_class # None
                        THEN <<class_header(parent_class)>> \o indent_text(node_lines)
                        ELSE node_lines)),
             node.lineno, node.end_lineno)

\* ast.get_docstring(node): the body opens with a string literal
get_docstring(node) == child_nodes(node)[1].item.kind = "doc"

\* lines 80-116: with a docstring, the class line and the lines up to the
\* docstring's last; without, the class line and the lines up to preview_end,
\* then the line "    # ..."
class_chunk(lines, node) ==
    LET start_line == node.lineno
        first_stmt == child_nodes(node)[1]
        doc_end == first_stmt.end_lineno
        body_start == first_stmt.lineno
        preview_end == Min2(body_start + 2, start_line + 5)
    IN IF get_docstring(node)
       THEN Chunk(join(<<lines[start_line]>> \o slice(lines, start_line, doc_end)),
                  start_line, doc_end)
       ELSE Chunk(join(slice(lines, start_line - 1, preview_end) \o <<Line(4, "# ...", "")>>),
                  start_line, preview_end)

RECURSIVE node_chunks(_, _)
node_chunks(lines, nodes) ==
    IF nodes = <<>> THEN <<>>
    ELSE (IF IsFunction(Head(nodes).item) THEN <<function_chunk(lines, Head(nodes))>>
          ELSE IF Head(nodes).item.kind = "class" THEN <<class_chunk(lines, Head(nodes))>>
          ELSE <<>>)
         \o node_chunks(lines, Tail(nodes))

\* the chunks of parsed content
python_chunks(text, chunks_) == IF chunks_ = <<>> THEN chunker_chunk_lines(text) ELSE chunks_

\* chunk_python(content): [chunks, raised]
chunker_chunk_python(content) ==
    IF parse(content).raised # None
    THEN [chunks |-> <<>>, raised |-> parse(content).raised]
    ELSE [chunks |-> python_chunks(SourceText(content),
                                   node_chunks(splitlines(SourceText(content)),
                                               parse(content).nodes)),
          raised |-> None]

\* chunk_file(file_path, content) for a path of the suffix; chunk_markdown is
\* defined nowhere: the call of line 27 raises NameError
chunker_chunk_file(suffix, content) ==
    IF suffix = ".py"
    THEN (IF chunker_chunk_python(content).raised = "SyntaxError"
          THEN [chunks |-> chunker_chunk_lines(SourceText(content)), raised |-> None]
          ELSE chunker_chunk_python(content))
    ELSE IF suffix = ".md" THEN [chunks |-> <<>>, raised |-> "NameError"]
    ELSE [chunks |-> chunker_chunk_lines(SourceText(content)), raised |-> None]

(***************************************************************************)
(* The chunker applied to drawn contents: up to two leading comment or     *)
(* blank lines, then up to MaxUnits units.  Each entry point is called on  *)
(* every content: chunk_file for a .py, a .md and a .html path,            *)
(* chunk_python, chunk_lines and chunk_markdown.                           *)
(***************************************************************************)
MaxUnits == 2

LongBody == [i \in 1..CHUNK_SIZE_LINES |-> Stmt]

\* with its declaration line, a unit of exactly CHUNK_SIZE_LINES lines
FullBody == [i \in 1..(CHUNK_SIZE_LINES - 1) |-> Stmt]

Units ==
    {Stmt, Broken, Header1, Header2,
     Item("def", "f", <<Stmt>>),
     Item("async def", "f", <<Stmt, Blank, Stmt>>),
     Item("def", "f", LongBody),
     Item("def", "f", <<Item("def", "g", <<Stmt>>), Stmt>>),
     Item("class", "A", <<Item("def", "m", <<Stmt, Blank, Stmt>>)>>),
     Item("class", "A", <<Stmt, Item("def", "m", LongBody)>>),
     Item("class", "A", <<Item("def", "m", FullBody)>>),
     Item("class", "A", <<Doc, Item("def", "m", <<Stmt>>)>>),
     Item("class", "A", <<Item("if", "", <<Item("def", "m", <<Stmt>>)>>)>>),
     Item("class", "A", <<Item("class", "B", <<Item("async def", "m", <<Stmt>>)>>)>>),
     Item("class", "A", <<Item("def", "m", <<Item("def", "g", <<Stmt>>), Stmt>>)>>)}

Leading == {<<>>, <<Comment>>, <<Blank, Comment>>}

DrawnContents ==
    {c \in {[items |-> ld \o us, nl |-> nl] :
               ld \in Leading, us \in UNION {[1..n -> Units] : n \in 0..MaxUnits},
               nl \in BOOLEAN} :
        c.items = <<>> => ~c.nl}

InitChunk ==
    /\ InitServing
    /\ pass = IdlePass
    /\ rrf = IdleRRF
    /\ srch = IdleSearch
    /\ bm = IdleBM
    /\ chk \in {[pc |-> "content", content |-> c, text |-> SourceText(c)] :
                   c \in DrawnContents}
    /\ cli = IdleClient

Called(entry, suffix, out) ==
    /\ chk.pc = "content"
    /\ chk' = [pc |-> "done", content |-> chk.content, text |-> chk.text,
               entry |-> entry, suffix |-> suffix, out |-> out]
    /\ UNCHANGED <<fsVars, dbVars, bm25_cache, dpc, backlog, conn, lifeVars, pass, rrf,
                   srch, bm, cli>>

CallChunkFile ==
    \E suffix \in {".py", ".md", ".html"} :
        Called("chunk_file", suffix, chunker_chunk_file(suffix, chk.content))

CallChunkPython == Called("chunk_python", "", chunker_chunk_python(chk.content))

CallChunkLines ==
    Called("chunk_lines", "",
           [chunks |-> chunker_chunk_lines(SourceText(chk.content)), raised |-> None])

\* the name chunk_markdown is bound nowhere in chunker.py
CallChunkMarkdown == Called("chunk_markdown", "", [chunks |-> <<>>, raised |-> "NameError"])

NextChunk == CallChunkFile \/ CallChunkPython \/ CallChunkLines \/ CallChunkMarkdown

SpecChunk == InitChunk /\ [][NextChunk]_vars

\* the call has returned or raised
ChunkDone == chk.pc = "done"

ContentLines == splitlines(chk.text)

\* the call went through chunk_python: directly, or by chunk_file on a .py path
PythonEntry ==
    \/ chk.entry = "chunk_python"
    \/ chk.entry = "chunk_file" /\ chk.suffix = ".py"

\* the call went through chunk_markdown
MarkdownEntry ==
    \/ chk.entry = "chunk_markdown"
    \/ chk.entry = "chunk_file" /\ chk.suffix = ".md"

\* C16: empty content yields an empty chunk sequence, without raising, by
\* every entry point: chunk_file on a .py, a .md and any other path,
\* chunk_python, chunk_markdown and chunk_lines.
C16_EmptyContentNoChunks ==
    (ChunkDone /\ chk.text = EmptyText)
    => chk.out = [chunks |-> <<>>, raised |-> None]

\* empty content without the entry points of Markdown: no chunk, nothing raised
EmptyContentNoChunksButMarkdown ==
    (ChunkDone /\ chk.text = EmptyText /\ ~MarkdownEntry)
    => chk.out = [chunks |-> <<>>, raised |-> None]

\* the source holds a line that does not parse
Unparseable == \E i \in 1..Len(ContentLines) : ContentLines[i].txt = "def broken("

\* the source holds no def, async def or class line
NoDefinition ==
    \A i \in 1..Len(ContentLines) : ContentLines[i].txt \notin {"def", "async def", "class"}

\* C17: chunking Python content that cannot be parsed never raises:
\* chunk_python and chunk_file on a .py path return the line-based chunks
\* of the content, at least one for non-empty content; so does parseable
\* content without a function or class definition.
C17_FallBackToLines ==
    (ChunkDone /\ PythonEntry /\ (Unparseable \/ NoDefinition))
    => /\ chk.out.raised = None
       /\ chk.out.chunks = chunker_chunk_lines(chk.text)
       /\ ContentLines # <<>> => Len(chk.out.chunks) >= 1

\* the same for chunk_file alone, and for chunk_python on content that parses
FallBackWhereCaught ==
    (/\ ChunkDone /\ PythonEntry /\ (Unparseable \/ NoDefinition)
     /\ chk.entry = "chunk_file" \/ ~Unparseable)
    => /\ chk.out.raised = None
       /\ chk.out.chunks = chunker_chunk_lines(chk.text)
       /\ ContentLines # <<>> => Len(chk.out.chunks) >= 1

\* the lines of the source that declare a function or method
DefLines == {i \in 1..Len(ContentLines) : ContentLines[i].txt \in {"def", "async def"}}

ClassLines == {i \in 1..Len(ContentLines) : ContentLines[i].txt = "class"}

\* a line without a statement: blank, or a comment
TriviaLine(l) == l.txt \in {"", "# c", "# T", "## T"}

\* lines i+1..j all belong to the block that line i opens: each is blank or
\* indented deeper than line i
InBlock(i, j) ==
    \A m \in (i + 1)..j :
        IsEmptyLine(ContentLines[m]) \/ ContentLines[m].indent > ContentLines[i].indent

\* the last line of the body of the definition declared at line i
BodyEnd(i) ==
    CHOOSE j \in i..Len(ContentLines) :
        /\ InBlock(i, j)
        /\ ~TriviaLine(ContentLines[j])
        /\ \A m \in (j + 1)..Len(ContentLines) : InBlock(i, m) => TriviaLine(ContentLines[m])

\* the chunks that start at line i
ChunksAt(i) == {k \in 1..Len(chk.out.chunks) : chk.out.chunks[k].start_line = i}

\* C18: every function or method definition of parseable Python content,
\* sync or async, at any nesting depth, yields exactly one chunk; its
\* start_line is the line of the declaration and its end_line the last line
\* of the body, whatever blank or comment lines stand before it.
C18_OneChunkPerFunction ==
    (ChunkDone /\ PythonEntry /\ ~Unparseable)
    => /\ chk.out.raised = None
       /\ \A i \in DefLines :
             /\ Cardinality(ChunksAt(i)) = 1
             /\ \A k \in ChunksAt(i) : chk.out.chunks[k].end_line = BodyEnd(i)

\* content with leading blank and comment lines and an async method in a class
\* nested in a class, followed by a function that holds a nested function
C18_Witness ==
    /\ ChunkDone
    /\ chk.entry = "chunk_python"
    /\ Len(ContentLines) = 10
    /\ ContentLines[1].txt = ""
    /\ ContentLines[2].txt = "# c"
    /\ ContentLines[3].txt = "class"
    /\ DefLines = {5, 7, 8}
    /\ ContentLines[5].txt = "async def"
    /\ Len(chk.out.chunks) = 5

\* the definitions (def, async def, class) whose block holds line i
Enclosing(i) ==
    {e \in (DefLines \cup ClassLines) :
        e < i /\ ContentLines[e].indent < ContentLines[i].indent /\ InBlock(e, i)}

\* the innermost definition around line i is a class: line i declares a method
IsMethod(i) ==
    /\ Enclosing(i) # {}
    /\ (CHOOSE e \in Enclosing(i) : \A d \in Enclosing(i) : d <= e) \in ClassLines

EnclosingClassName(i) ==
    ContentLines[CHOOSE e \in Enclosing(i) : \A d \in Enclosing(i) : d <= e].tag

\* line c of a chunk is source line l with four more spaces (an empty line may
\* stay empty)
Indented(c, l) ==
    \/ c = [l EXCEPT !.indent = @ + 4]
    \/ IsEmptyLine(l) /\ c = l

\* C19: the chunk of every method defined inside a class, truncated or not,
\* has the header `class <EnclosingClassName>:` as its first text line,
\* followed by the method's source lines, each indented by four further
\* spaces; the chunk of a function that is not inside a class has no such
\* header and starts with its own declaration line.
C19_MethodHeader ==
    (ChunkDone /\ PythonEntry /\ ~Unparseable)
    => \A i \in DefLines : \A k \in ChunksAt(i) :
          LET text == chk.out.chunks[k].text.lines
              truncated == BodyEnd(i) - i + 1 > CHUNK_SIZE_LINES
              shown == IF truncated THEN CHUNK_SIZE_LINES - 2 ELSE BodyEnd(i) - i + 1
          IN /\ IsMethod(i) =>
                  /\ text[1] = Line(0, "class", EnclosingClassName(i))
                  /\ Len(text) = 1 + shown + (IF truncated THEN 1 ELSE 0)
                  /\ \A m \in 1..shown : Indented(text[m + 1], ContentLines[i + m - 1])
             /\ (Enclosing(i) \cap ClassLines = {}) =>
                  /\ text[1] = ContentLines[i]
                  /\ text[1].txt # "class"

\* the declaration of line i stands directly in the body of its class, in no
\* block of that body
DirectMethod(i) ==
    /\ IsMethod(i)
    /\ \A e \in Enclosing(i) :
          (\A d \in Enclosing(i) : d <= e)
          => \A m \in (e + 1)..(i - 1) :
                ~TriviaLine(ContentLines[m])
                => ContentLines[m].indent >= ContentLines[i].indent

\* the header stands on the chunks of the methods that are direct children of
\* a class body
DirectMethodHeader ==
    (ChunkDone /\ PythonEntry /\ ~Unparseable)
    => \A i \in DefLines : \A k \in ChunksAt(i) :
          LET text == chk.out.chunks[k].text.lines
              truncated == BodyEnd(i) - i + 1 > CHUNK_SIZE_LINES
              shown == IF truncated THEN CHUNK_SIZE_LINES - 2 ELSE BodyEnd(i) - i + 1
          IN /\ DirectMethod(i) =>
                  /\ text[1] = Line(0, "class", EnclosingClassName(i))
                  /\ Len(text) = 1 + shown + (IF truncated THEN 1 ELSE 0)
                  /\ \A m \in 1..shown : Indented(text[m + 1], ContentLines[i + m - 1])
             /\ ~DirectMethod(i) =>
                  /\ text[1] = ContentLines[i]
                  /\ text[1].txt # "class"

\* the header lines of Markdown content: one or two "#" at the line start
HeaderLines ==
    {i \in 1..Len(ContentLines) :
        ContentLines[i].indent = 0 /\ ContentLines[i].txt \in {"# c", "# T", "## T"}}

HeaderLevel(i) == IF ContentLines[i].txt = "## T" THEN 2 ELSE 1

\* the line before the next header of equal or higher level, the last line
\* when there is none
SectionEnd(i) ==
    LET next == {j \in HeaderLines : j > i /\ HeaderLevel(j) <= HeaderLevel(i)}
    IN IF next = {} THEN Len(ContentLines)
       ELSE (CHOOSE j \in next : \A m \in next : j <= m) - 1

\* C20: for Markdown content with header lines, chunk_file on a .md path and
\* chunk_markdown return one chunk per header, from the header line to the
\* line before the next header of equal or higher level; for content
\* without a header they return the line-based chunks; nothing is raised.
C20_MarkdownSections ==
    (ChunkDone /\ MarkdownEntry)
    => /\ chk.out.raised = None
       /\ HeaderLines = {} => chk.out.chunks = chunker_chunk_lines(chk.text)
       /\ HeaderLines # {} =>
             /\ Len(chk.out.chunks) = Cardinality(HeaderLines)
             /\ \A i \in HeaderLines :
                   \E k \in 1..Len(chk.out.chunks) :
                       /\ chk.out.chunks[k].start_line = i
                       /\ chk.out.chunks[k].end_line = SectionEnd(i)

\* an index or search request on a repository that tracks a .md file present
\* in the working tree is answered with success
MarkdownRepositoryIndexed ==
    (/\ Handled
     /\ Exchange.payload.kind = "request"
     /\ Exchange.payload.request.action \in {"index", "search"}
     /\ CMd \in TrackedSet(RepoOf(Exchange))
     /\ disk[RepoOf(Exchange)][CMd].exists)
    => Exchange.resp.success

(***************************************************************************)
(* The wire format: client.send_request and Daemon._send_message write a   *)
(* frame, Daemon._recv_message and client.send_request read one.  A        *)
(* payload is known by its length in bytes; a byte stream is the header's  *)
(* digits followed by that many payload bytes.                             *)
(***************************************************************************)

\* the width of the format specification in f"{len(data):08d}"
HEADER_DIGITS == 8

\* the payload lengths drawn lie within MaxPayload of zero and of the first
\* length that has more digits than the header's width
MaxPayload == 5

HeaderLimit == 10 ^ HEADER_DIGITS

\* str(n) of a non-negative integer, as a sequence of digits
RECURSIVE decimal(_)
decimal(n) == IF n < 10 THEN <<n>> ELSE decimal(n \div 10) \o <<n % 10>>

\* f"{n:08d}": zero-padded on the left up to the width, never cut
format_header(n) ==
    [i \in 1..(HEADER_DIGITS - Len(decimal(n))) |-> 0] \o decimal(n)

\* int(header.decode()) of a sequence of digits
RECURSIVE int(_)
int(digits) ==
    IF digits = <<>> THEN 0
    ELSE 10 * int(SubSeq(digits, 1, Len(digits) - 1)) + digits[Len(digits)]

\* _send_message, and lines 53-56 of send_request: the bytes put on the wire
send_message(n) == [header |-> format_header(n), body |-> n]

\* _recv_message, and lines 58-73 of send_request: the first 8 bytes are the
\* header, the next int(header) bytes the data.  The data is given as the
\* header digits it swallowed and the number of payload bytes after them;
\* the read raises ConnectionError when the peer closes before that many
\* bytes have come.
recv_frame(stream) ==
    LET header == SubSeq(stream.header, 1, HEADER_DIGITS)
        rest == SubSeq(stream.header, HEADER_DIGITS + 1, Len(stream.header))
        msg_len == int(header)
    IN  IF Len(stream.header) < HEADER_DIGITS \/ msg_len > Len(rest) + stream.body
        THEN [raised |-> "ConnectionError", header |-> header]
        ELSE [raised |-> None, header |-> header,
              digits |-> SubSeq(rest, 1, Min2(msg_len, Len(rest))),
              bytes |-> Max2(0, msg_len - Len(rest))]

\* the data a read returns is the payload of n bytes the sender passed in
Returns(got, n) == got.raised = None /\ got.digits = <<>> /\ got.bytes = n

DrawnLengths ==
    UNION {{n, HeaderLimit - 1 - n, HeaderLimit + n} : n \in 0..MaxPayload}

InitFrame ==
    /\ InitServing
    /\ pass = IdlePass
    /\ rrf = IdleRRF
    /\ srch = IdleSearch
    /\ bm = IdleBM
    /\ chk = IdleChunk
    /\ cli \in {[pc |-> "connected", request |-> n, up |-> <<>>, down |-> <<>>] :
                   n \in DrawnLengths}

frameRest == <<fsVars, dbVars, bm25_cache, dpc, backlog, conn, lifeVars, pass, rrf,
               srch, bm, chk>>

\* client.send_request lines 53-56
SendRequest ==
    /\ cli.pc = "connected"
    /\ cli' = [cli EXCEPT !.pc = "request_sent", !.up = <<send_message(cli.request)>>]
    /\ UNCHANGED frameRest

\* Daemon._handle_connection line 93
RecvRequest ==
    /\ cli.pc = "request_sent"
    /\ cli' = [pc |-> "request_read", request |-> cli.request, up |-> cli.up,
               down |-> cli.down, got_request |-> recv_frame(cli.up[1])]
    /\ UNCHANGED frameRest

\* Daemon._handle_connection line 96, or line 100 after an exception: one
\* response of some length
SendResponse ==
    /\ cli.pc = "request_read"
    /\ \E n \in DrawnLengths :
          cli' = [pc |-> "response_sent", request |-> cli.request, up |-> cli.up,
                  down |-> <<send_message(n)>>, got_request |-> cli.got_request,
                  response |-> n]
    /\ UNCHANGED frameRest

\* Daemon._handle_connection lines 100-104: the send of the error response
\* raised too, the connection is closed with nothing written
CloseUnanswered ==
    /\ cli.pc = "request_read"
    /\ cli' = [pc |-> "closed", request |-> cli.request, up |-> cli.up,
               down |-> <<>>, got_request |-> cli.got_request,
               got_response |-> [raised |-> "ConnectionError", header |-> <<>>]]
    /\ UNCHANGED frameRest

\* client.send_request lines 58-77
RecvResponse ==
    /\ cli.pc = "response_sent"
    /\ cli' = [pc |-> "closed", request |-> cli.request, up |-> cli.up,
               down |-> cli.down, got_request |-> cli.got_request,
               response |-> cli.response, got_response |-> recv_frame(cli.down[1])]
    /\ UNCHANGED frameRest

NextFrame == SendRequest \/ RecvRequest \/ SendResponse \/ CloseUnanswered \/ RecvResponse

SpecFrame == InitFrame /\ [][NextFrame]_vars

RequestRead == cli.pc \in {"request_read", "response_sent", "closed"}

ResponseRead == cli.pc = "closed" /\ cli.down # <<>>

\* C21: every frame written has a header of exactly 8 digits holding the
\* payload's length and is followed by that many bytes, the reader of a frame
\* gets the payload the writer passed in, and a connection carries exactly
\* one request frame and at most one response frame.
C21_FramesRoundTrip ==
    /\ \A f \in Range(cli.up) \cup Range(cli.down) :
          Len(f.header) = HEADER_DIGITS /\ int(f.header) = f.body
    /\ RequestRead => Returns(cli.got_request, cli.request)
    /\ ResponseRead => Returns(cli.got_response, cli.response)
    /\ Len(cli.up) = (IF cli.pc = "connected" THEN 0 ELSE 1)
    /\ Len(cli.down) <= 1

\* what does hold: a payload shorter than 10^8 bytes comes back as it was
\* passed in, and no connection carries a second frame in either direction
FramesBelowLimitRoundTrip ==
    /\ \A f \in Range(cli.up) \cup Range(cli.down) :
          f.body < HeaderLimit => Len(f.header) = HEADER_DIGITS /\ int(f.header) = f.body
    /\ RequestRead /\ cli.request < HeaderLimit => Returns(cli.got_request, cli.request)
    /\ ResponseRead /\ cli.response < HeaderLimit
          => Returns(cli.got_response, cli.response)
    /\ Len(cli.up) = (IF cli.pc = "connected" THEN 0 ELSE 1)
    /\ Len(cli.down) <= 1

\* a response of 10^8 bytes or more has been read short
LongResponseRead ==
    /\ ResponseRead
    /\ cli.response >= HeaderLimit
    /\ cli.got_response.raised = None
    /\ cli.got_response.bytes < cli.response

(***************************************************************************)
(* client.ensure_daemon_running beside the daemon process it launches.     *)
(* cli.daemon is the position of that process in Daemon.start and          *)
(* Daemon._run, cli.sock whether SOCKET_PATH exists, cli.pid whether       *)
(* PID_FILE names a live process.                                          *)
(***************************************************************************)

\* range(60) at line 31 of client.py
POLL_ATTEMPTS == 60

\* the daemon has called listen() and its process is alive
Listening == cli.daemon \in {"loading", "stuck", "serving"}

InitStart ==
    /\ InitServing
    /\ pass = IdlePass
    /\ rrf = IdleRRF
    /\ srch = IdleSearch
    /\ bm = IdleBM
    /\ chk = IdleChunk
    /\ cli \in {c \in {[pc |-> "status", attempts |-> 0, daemon |-> d, sock |-> f,
                         pid |-> d # "none", launched |-> FALSE, pinged |-> FALSE,
                         result |-> None] :
                           d \in {"none", "loading", "serving"}, f \in BOOLEAN} :
                   c.daemon # "none" => c.sock}

\* lines 18-19: if daemon_status(): return True
CheckStatus ==
    /\ cli.pc = "status"
    /\ cli' = IF cli.pid THEN [cli EXCEPT !.pc = "returned", !.result = TRUE]
              ELSE [cli EXCEPT !.pc = "launch"]
    /\ UNCHANGED frameRest

\* lines 24-28: subprocess.Popen of "scot.daemon start"
Launch ==
    /\ cli.pc = "launch"
    /\ cli' = [cli EXCEPT !.pc = "for", !.daemon = "start", !.launched = TRUE]
    /\ UNCHANGED frameRest

\* lines 31-32: the next round of for _ in range(60), and time.sleep(1)
Sleep ==
    /\ cli.pc = "for"
    /\ cli.attempts < POLL_ATTEMPTS
    /\ cli' = [cli EXCEPT !.pc = "exists", !.attempts = @ + 1]
    /\ UNCHANGED frameRest

\* line 33: if SOCKET_PATH.exists()
SocketExists ==
    /\ cli.pc = "exists"
    /\ cli' = [cli EXCEPT !.pc = IF cli.sock THEN "connect" ELSE "for"]
    /\ UNCHANGED frameRest

\* send_request lines 49-56 under the try of line 34: connect raises
\* ConnectionRefusedError when no process listens, which line 39 swallows;
\* else the ping is written into the connection, which waits in the backlog
ConnectAndSend ==
    /\ cli.pc = "connect"
    /\ cli' = [cli EXCEPT !.pc = IF Listening THEN "recv" ELSE "for"]
    /\ UNCHANGED frameRest

\* send_request lines 58-75 and lines 36-38: the daemon, in its loop, accepts
\* and answers the ping with success = true
RecvPong ==
    /\ cli.pc = "recv"
    /\ cli.daemon = "serving"
    /\ cli' = [cli EXCEPT !.pc = "returned", !.result = TRUE, !.pinged = TRUE]
    /\ UNCHANGED frameRest

\* send_request lines 61-62: the daemon process died with the connection in
\* its backlog, recv returns no bytes and ConnectionError is swallowed at
\* line 39
RecvClosed ==
    /\ cli.pc = "recv"
    /\ ~Listening
    /\ cli' = [cli EXCEPT !.pc = "for"]
    /\ UNCHANGED frameRest

\* lines 43-44: the loop is exhausted
GiveUp ==
    /\ cli.pc = "for"
    /\ cli.attempts = POLL_ATTEMPTS
    /\ cli' = [cli EXCEPT !.pc = "returned", !.result = FALSE]
    /\ UNCHANGED frameRest

ClientNext ==
    CheckStatus \/ Launch \/ Sleep \/ SocketExists \/ ConnectAndSend \/ RecvPong
        \/ RecvClosed \/ GiveUp

\* Daemon._run line 56: PID_FILE.write_text
StartWritePid ==
    /\ cli.daemon = "start"
    /\ cli' = [cli EXCEPT !.daemon = "bind", !.pid = TRUE]
    /\ UNCHANGED frameRest

\* Daemon._run lines 63-70: unlink, bind, listen
StartBind ==
    /\ cli.daemon = "bind"
    /\ cli' = [cli EXCEPT !.daemon = "loading", !.sock = TRUE]
    /\ UNCHANGED frameRest

\* Daemon._run lines 75-78: embedder.load() returns and the loop is entered
StartLoaded ==
    /\ cli.daemon = "loading"
    /\ cli' = [cli EXCEPT !.daemon = "serving"]
    /\ UNCHANGED frameRest

\* Daemon._run line 75: embedder.load() raises; the process ends with the
\* socket file and the PID file left behind
StartLoadFails ==
    /\ cli.daemon = "loading"
    /\ cli' = [cli EXCEPT !.daemon = "dead", !.pid = FALSE]
    /\ UNCHANGED frameRest

\* Daemon._run line 75: embedder.load() does not return
StartLoadHangs ==
    /\ cli.daemon = "loading"
    /\ cli' = [cli EXCEPT !.daemon = "stuck"]
    /\ UNCHANGED frameRest

\* the process ends before it listens: Daemon.start or Daemon._run raises
StartDies ==
    /\ cli.daemon \in {"start", "bind"}
    /\ cli' = [cli EXCEPT !.daemon = "dead", !.pid = FALSE]
    /\ UNCHANGED frameRest

DaemonStartNext ==
    StartWritePid \/ StartBind \/ StartLoaded \/ StartLoadFails \/ StartLoadHangs
        \/ StartDies

NextStart == ClientNext \/ DaemonStartNext

SpecStart ==
    InitStart /\ [][NextStart]_vars /\ WF_vars(ClientNext) /\ WF_vars(DaemonStartNext)

\* C22: ensure_daemon_running always returns; it never makes more than 60
\* polling attempts, and when it returns True after launching a daemon, a
\* ping was answered with success = true.
C22_StartTerminates ==
    /\ [](cli.attempts <= POLL_ATTEMPTS)
    /\ [](cli.pc = "returned" /\ cli.launched /\ cli.result = TRUE => cli.pinged)
    /\ <>(cli.pc = "returned")

\* what does hold: the call returns unless the launched daemon's model load
\* never finishes while the client waits for the answer to its ping
StartTerminatesUnlessLoadHangs ==
    /\ [](cli.attempts <= POLL_ATTEMPTS)
    /\ [](cli.pc = "returned" /\ cli.launched /\ cli.result = TRUE => cli.pinged)
    /\ <>(cli.pc = "returned" \/ (cli.pc = "recv" /\ cli.daemon = "stuck"))

\* the launching client gave up after 60 attempts
GaveUpAfterLaunch ==
    cli.pc = "returned" /\ cli.launched /\ cli.result = FALSE
        /\ cli.attempts = POLL_ATTEMPTS

(***************************************************************************)
(* Properties of the repository table, under Spec.                         *)
(***************************************************************************)
\* C23: a path already seen gets the id it got first and adds no row, two
\* different paths have different ids, and no step deletes or renumbers a
\* repository row.
C23_RepoIdsStable ==
    [][/\ Len(repos') >= Len(repos)
       /\ \A i \in 1..Len(repos) : repos'[i] = repos[i]
       /\ \A i, j \in 1..Len(repos') : repos'[i] = repos'[j] => i = j
       /\ \A i \in 1..Len(repos') :
             get_or_create_repo(repos', repos'[i]) = [repos |-> repos', id |-> i]]_vars

\* a request for a repository that already had its row has been handled,
\* beside the row of another repository
C23_Witness ==
    /\ Handled
    /\ Exchange.trace.reconciled
    /\ BeforeId(Exchange) # 0
    /\ Len(repos) = 2
    /\ RepoId(repos, RepoOf(Exchange)) = BeforeId(Exchange)

(***************************************************************************)
(* search.add_context_lines applied to the results of the chunker: a .py,  *)
(* .md or .html file of a drawn content is chunked by chunk_file, one of   *)
(* its chunks is the result, and the file is read again for its context.   *)
(***************************************************************************)
MaxContext == 3

\* f"| {line}" and f"  {line}"
Marked(mark, line) == [mark |-> mark, line |-> line]

\* SearchResult of a stored chunk
SearchResult(start_line, end_line, chunk_text) ==
    [start_line |-> start_line, end_line |-> end_line, chunk_text |-> chunk_text]

\* lines 153-161: the lines of range(new_start - 1, new_end), each marked
output_lines(lines, result, new_start, new_end) ==
    [k \in 1..Max2(0, new_end - new_start + 1) |->
        LET line_num == new_start + k - 1
        IN  IF line_num < result.start_line \/ line_num > result.end_line
            THEN Marked("| ", lines[line_num])
            ELSE Marked("  ", lines[line_num])]

\* lines 149-150
context_range(lines, result, context_lines) ==
    [new_start |-> Max2(1, result.start_line - context_lines),
     new_end |-> Min2(Len(lines), result.end_line + context_lines)]

\* file_path.read_text(): the text, or the exception raised
read_text(readable, text) ==
    IF readable THEN [raised |-> None, text |-> text]
    ELSE [raised |-> "OSError", text |-> EmptyText]

\* add_context_lines(result, repo_root, context_lines); file is what
\* read_text gave
add_context_lines(result, file, context_lines) ==
    IF file.raised # None THEN result
    ELSE LET rg == context_range(splitlines(file.text), result, context_lines)
         IN  SearchResult(rg.new_start, rg.new_end,
                          join(output_lines(splitlines(file.text), result,
                                            rg.new_start, rg.new_end)))

\* a chunk the chunker returned is the result, shown with 0..MaxContext
\* context lines; the file is as it was chunked, or cannot be read
ShowContext ==
    /\ chk.pc = "done"
    /\ chk.entry = "chunk_file"
    /\ cli.pc = "idle"
    /\ \E i \in 1..Len(chk.out.chunks), n \in 0..MaxContext, readable \in BOOLEAN :
          LET c == chk.out.chunks[i]
              result == SearchResult(c.start_line, c.end_line, c.text)
          IN  cli' = [pc |-> "shown", result |-> result, context_lines |-> n,
                      readable |-> readable,
                      shown |-> add_context_lines(result, read_text(readable, chk.text),
                                                  n)]
    /\ UNCHANGED <<fsVars, dbVars, bm25_cache, dpc, backlog, conn, lifeVars, pass, rrf,
                   srch, bm, chk>>

NextContext == CallChunkFile \/ ShowContext

SpecContext == InitChunk /\ [][NextContext]_vars

Shown == cli.pc = "shown"

\* the range and the marks of the shown result, for a file of L lines
ContextOf(result, shown, n, L) ==
    /\ shown.start_line = Max2(1, result.start_line - n)
    /\ shown.end_line = Min2(L, result.end_line + n)
    /\ Len(shown.chunk_text.lines) = shown.end_line - shown.start_line + 1
    /\ \A k \in 1..Len(shown.chunk_text.lines) :
          LET line_num == shown.start_line + k - 1
              original == result.start_line <= line_num /\ line_num <= result.end_line
          IN  shown.chunk_text.lines[k]
                = Marked(IF original THEN "  " ELSE "| ", ContentLines[line_num])

\* C24: on a result of a readable file of L lines, add_context_lines with n
\* context lines returns the range [max(1, start - n), min(L, end + n)], which
\* contains the result's range, with the lines of the result's range marked
\* original and the others marked context; the result comes back unchanged
\* when the file cannot be read.
C24_ContextLines ==
    Shown =>
        IF cli.readable
        THEN /\ ContextOf(cli.result, cli.shown, cli.context_lines, Len(ContentLines))
             /\ cli.shown.start_line <= cli.result.start_line
             /\ cli.result.end_line <= cli.shown.end_line
        ELSE cli.shown = cli.result

\* what does hold: the range and the marks are as stated, and the range
\* contains the result's range when the result ends within the file
ContextLinesWithinFile ==
    Shown =>
        IF cli.readable
        THEN /\ ContextOf(cli.result, cli.shown, cli.context_lines, Len(ContentLines))
             /\ cli.shown.start_line <= cli.result.start_line
             /\ cli.result.end_line <= Len(ContentLines)
                   => cli.result.end_line <= cli.shown.end_line
        ELSE cli.shown = cli.result

\* context was added on both sides of a result inside a readable file
ContextAddedBothSides ==
    /\ Shown
    /\ cli.readable
    /\ cli.shown.start_line < cli.result.start_line
    /\ cli.result.end_line < cli.shown.end_line

(***************************************************************************)
(* Properties of the query cache and of the chunk ids, under Spec.         *)
(***************************************************************************)
\* the pass of the exchange returned and reported a change
ReportsChange(e) ==
    /\ e.trace.reconciled
    /\ e.trace.completed
    /\ \/ e.trace.stats.files_updated > 0
       \/ e.trace.stats.chunks_added > 0
       \/ e.trace.stats.files_removed > 0

\* the lexical step of the exchange built its index anew and stored it
Rebuilt(e) ==
    /\ e.payload.request.action = "search"
    /\ e.payload.request.file_pattern = NoPattern
    /\ e.trace.used # <<>>
    /\ ~e.trace.used[1].cached

\* C25: a request, search or index, whose reconcile pass reports a change
\* leaves no cache entry of before the pass for its repository: the entry is
\* gone, or the same request has built and stored a new one after the pass.
C25_ChangeEvicts ==
    [][(/\ dpc = "recv"
        /\ dpc' = "send"
        /\ Exchange'.payload.kind = "request"
        /\ ReportsChange(Exchange')
        /\ RepoOf(Exchange') \in DOMAIN bm25_cache)
       => \/ RepoOf(Exchange') \notin DOMAIN bm25_cache'
          \/ Rebuilt(Exchange')]_vars

\* what does hold: a search whose pass updated a file leaves no entry of
\* before the pass
UpdatingSearchEvicts ==
    [][(/\ dpc = "recv"
        /\ dpc' = "send"
        /\ Exchange'.payload.kind = "request"
        /\ Exchange'.payload.request.action = "search"
        /\ ReportsChange(Exchange')
        /\ Exchange'.trace.stats.files_updated > 0
        /\ RepoOf(Exchange') \in DOMAIN bm25_cache)
       => \/ RepoOf(Exchange') \notin DOMAIN bm25_cache'
          \/ Rebuilt(Exchange')]_vars

\* C26: every row inserted by a step has an id greater than every id the
\* table held before the step, so no id of a row that was deleted or replaced
\* is given again.
C26_ChunkIdsMonotonic ==
    [][\A r \in chunks' \ chunks : \A q \in chunks : r.id > q.id]_vars

\* what does hold: at any one time no two stored rows share an id
ChunkIdsUniqueAtATime == \A r, q \in chunks : r.id = q.id => r = q

\* the chunks of the exchange's repository that pass its file pattern, as
\* stored when it ranks
FilteredChunks(repos_, rows, e) ==
    filter_chunks(get_repo_chunks(rows, RepoId(repos_, RepoOf(e))),
                  e.payload.request.file_pattern)

\* the exchange is a search with a file pattern whose pass returned
FilteredSearch(e) ==
    /\ e.payload.kind = "request"
    /\ e.payload.request.action = "search"
    /\ e.payload.request.file_pattern # NoPattern
    /\ e.trace.completed

\* C27: a search with a file pattern scores with an index built from exactly
\* the texts of the chunks that pass the filter, never with a cached one, and
\* stores none: an entry of the cache afterwards is the entry of before, and
\* nothing but the eviction after an updating pass takes an entry away.
C27_FilterBypassesCache ==
    [][(dpc = "recv" /\ dpc' = "send" /\ FilteredSearch(Exchange'))
       => /\ Exchange'.trace.used # <<>>
             => /\ ~Exchange'.trace.used[1].cached
                /\ Exchange'.trace.used[1].bm25
                     = BM25Index_index(ChunkTexts(FilteredChunks(repos', chunks',
                                                               Exchange')))
          /\ \A k \in DOMAIN bm25_cache' :
                k \in DOMAIN bm25_cache /\ bm25_cache'[k] = bm25_cache[k]
          /\ \A k \in DOMAIN bm25_cache :
                k \in DOMAIN bm25_cache'
                  \/ (k = RepoOf(Exchange') /\ Exchange'.trace.stats.files_updated > 0)]_vars

\* a lexical search with a file pattern that some stored chunk does not pass
\* has ranked while the cache held an entry for its repository
C27_Witness ==
    /\ Handled
    /\ FilteredSearch(Exchange)
    /\ Exchange.trace.used # <<>>
    /\ RepoOf(Exchange) \in DOMAIN bm25_cache
    /\ Len(FilteredChunks(repos, chunks, Exchange))
         < Len(get_repo_chunks(chunks, RepoId(repos, RepoOf(Exchange))))

\* the unfiltered chunk list of a repository key, as stored
StoredChunks(repos_, rows, key) == get_repo_chunks(rows, RepoId(repos_, key))

ChunkIds(cs) == [i \in 1..Len(cs) |-> cs[i].id]

\* the lexical ranking of an exchange that scored with a BM25 index
LexicalRanking(e) == e.trace.rankings[Len(e.trace.rankings)]

\* C28: the cache is a map from repository keys to entries; every entry's
\* index has as many documents as its id sequence has ids; an entry that a
\* step stores pairs the index built from the texts of all the chunks stored
\* for the repository, in order, with the ids of those chunks; and a search
\* that reuses a cached index gets only document indexes that are positions
\* of the current chunk list.
C28_CacheEntriesWellFormed ==
    [][/\ DOMAIN bm25_cache' \subseteq Repos
       /\ \A k \in DOMAIN bm25_cache' :
             /\ bm25_cache'[k].bm25.num_docs = Len(bm25_cache'[k].chunk_ids)
             /\ (k \notin DOMAIN bm25_cache \/ bm25_cache'[k] # bm25_cache[k])
                => /\ bm25_cache'[k].chunk_ids = ChunkIds(StoredChunks(repos', chunks', k))
                   /\ bm25_cache'[k].bm25
                        = BM25Index_index(ChunkTexts(StoredChunks(repos', chunks', k)))
       /\ (dpc = "recv" /\ dpc' = "send" /\ Exchange'.trace.used # <<>>
             /\ Exchange'.trace.used[1].cached)
          => /\ Exchange'.trace.used[1].bm25 = bm25_cache[RepoOf(Exchange')].bm25
             /\ \A i \in 1..Len(LexicalRanking(Exchange')) :
                   LexicalRanking(Exchange')[i][1]
                     \in 0..(Len(StoredChunks(repos', chunks', RepoOf(Exchange'))) - 1)]_vars

\* a search has reused the cached index of a repository of two chunks and
\* got a ranking from it
C28_Witness ==
    /\ Handled
    /\ Exchange.trace.used # <<>>
    /\ Exchange.trace.used[1].cached
    /\ LexicalRanking(Exchange) # <<>>
    /\ Len(StoredChunks(repos, chunks, RepoOf(Exchange))) = 2
    /\ bm25_cache[RepoOf(Exchange)].bm25.num_docs = 2

(***************************************************************************)
(* Properties of the stored rows, under Spec and SpecPass.                 *)
(***************************************************************************)
\* the pass at hand has committed, an earlier pass on the same repository did
\* not, and no file changed since
CompletesUnfinished ==
    /\ pass.pc = "done"
    /\ pass.outcome = "committed"
    /\ pass.unfinished.repo = pass.repo
    /\ pass.unfinished.changes = changes

\* C30: when a pass is interrupted and the next pass on the repository, with
\* no file change in between, runs to completion, every file of the
\* repository has the rows (texts, line ranges, modification times) that one
\* uninterrupted pass from the rows before the interruption gives it.
C30_UnfinishedPassRedone ==
    CompletesUnfinished
    => \A p \in FilesOf(pass.repo) :
          FileContent(chunks, pass.id, p)
            = FileContent(index_repo(repos, pass.unfinished.before, pass.repo,
                                     pass.force, TRUE).chunks,
                          pass.id, p)

\* the interrupted pass had written rows, and the pass that completed after
\* it changed the stored rows
C30_Witness ==
    /\ CompletesUnfinished
    /\ pass.unfinished.written >= 1
    /\ chunks # pass.unfinished.before
    /\ \E p \in FilesOf(pass.repo) : Cardinality(FileRows(chunks, pass.id, p)) >= 2

\* C29: all the committed rows of one file of one repository carry the same
\* file_mtime, so the one row get_file_mtime reads stands for the file.
C29_OneMtimePerFile ==
    \A r, q \in chunks :
        (r.repo_id = q.repo_id /\ r.file_path = q.file_path)
        => (r.file_mtime = q.file_mtime
            /\ get_file_mtime(chunks, r.repo_id, r.file_path) = r.file_mtime)

\* a file of two chunks has been stored again after it was rewritten
C29_Witness ==
    \E r, q \in chunks :
        /\ r.id # q.id
        /\ r.repo_id = q.repo_id
        /\ r.file_path = q.file_path
        /\ r.file_mtime > 1

(***************************************************************************)
(* Properties of the embedding batch and of the scan, under Spec.          *)
(***************************************************************************)
\* the id of the exchange's repository
AfterId(e) == RepoId(repos, RepoOf(e))

Forced(e) == e.payload.request.action = "index" /\ e.payload.request.force_reindex

\* the pass of the exchange finds the tracked file p changed
Changed(e, p) ==
    /\ disk[RepoOf(e)][p].exists
    /\ ~is_unchanged(Forced(e), get_file_mtime(e.before.chunks, AfterId(e), p),
                     disk[RepoOf(e)][p].mtime)

\* the chunks of the changed files among the listed ones, in listing order,
\* each with its path
RECURSIVE QueueOf(_, _)
QueueOf(e, files) ==
    IF files = <<>> THEN <<>>
    ELSE (IF Changed(e, Head(files))
          THEN [i \in 1..Len(NewChunks(e, Head(files))) |->
                  [rel_path |-> Head(files), chunk |-> NewChunks(e, Head(files))[i]]]
          ELSE <<>>)
         \o QueueOf(e, Tail(files))

Queue(e) == QueueOf(e, get_tracked_files(RepoOf(e)))

QueueTexts(q) == [i \in 1..Len(q) |-> q[i].chunk.text]

\* C31: a pass hands at most one batch to the embedding provider; a batch it
\* hands over holds the chunk texts of all changed files in scan order; a
\* pass that returns has handed over one batch when a changed file yields
\* chunks and none otherwise; and the row of the i-th queued chunk carries
\* the i-th embedding of the batch.
C31_OneBatchPerPass ==
    (Handled /\ Exchange.payload.kind = "request" /\ Exchange.trace.reconciled)
    => /\ Len(Exchange.trace.batches) <= 1
       /\ Exchange.trace.batches # <<>>
          => (Queue(Exchange) # <<>>
              /\ Exchange.trace.batches[1] = QueueTexts(Queue(Exchange)))
       /\ Exchange.trace.completed
          => /\ Exchange.trace.batches # <<>> <=> Queue(Exchange) # <<>>
             /\ \A p \in TrackedSet(RepoOf(Exchange)) :
                   (\E i \in 1..Len(Queue(Exchange)) : Queue(Exchange)[i].rel_path = p)
                   => FileContent(chunks, AfterId(Exchange), p)
                        = {[file_mtime |-> disk[RepoOf(Exchange)][p].mtime,
                            start_line |-> Queue(Exchange)[i].chunk.start_line,
                            end_line |-> Queue(Exchange)[i].chunk.end_line,
                            chunk_text |-> Queue(Exchange)[i].chunk.text,
                            embedding |-> embed_documents(
                                              QueueTexts(Queue(Exchange)))[i]] :
                              i \in {j \in 1..Len(Queue(Exchange)) :
                                       Queue(Exchange)[j].rel_path = p}}

\* a pass has embedded the chunks of two changed files in one batch, with
\* two different embeddings, and returned
C31_Witness ==
    /\ Handled
    /\ Exchange.payload.kind = "request"
    /\ Exchange.trace.completed
    /\ Len(Exchange.trace.batches) = 1
    /\ Len(Exchange.trace.batches[1]) = 2
    /\ Queue(Exchange)[1].rel_path # Queue(Exchange)[2].rel_path
    /\ encode(Exchange.trace.batches[1][1]) # encode(Exchange.trace.batches[1][2])

\* the listed files without p
Without(files, p) == SelectSeq(files, LAMBDA f : f # p)

\* C32: a tracked file that is not on disk when the pass scans keeps its
\* stored rows, gives nothing to the embedding batch, and is counted in
\* files_scanned and not in files_removed by a pass that returns.
C32_MissingFileSkipped ==
    \A p \in {APy, BHtml, CMd} :
       (/\ Handled
        /\ Exchange.payload.kind = "request"
        /\ Exchange.trace.reconciled
        /\ p \in TrackedSet(RepoOf(Exchange))
        /\ ~disk[RepoOf(Exchange)][p].exists)
       => /\ FileRows(chunks, AfterId(Exchange), p)
               = FileRows(Exchange.before.chunks, AfterId(Exchange), p)
          /\ Exchange.trace.batches # <<>>
             => Exchange.trace.batches[1]
                  = QueueTexts(QueueOf(Exchange,
                                       Without(get_tracked_files(RepoOf(Exchange)), p)))
          /\ Exchange.trace.completed
             => /\ Exchange.trace.stats.files_scanned
                     = Cardinality(TrackedSet(RepoOf(Exchange)))
                /\ Exchange.trace.stats.files_removed
                     = Cardinality(get_repo_files(Exchange.before.chunks, AfterId(Exchange))
                                   \ TrackedSet(RepoOf(Exchange)))
                /\ Exchange.trace.stats.files_updated
                     = Cardinality({f \in TrackedSet(RepoOf(Exchange)) \ {p} :
                                      \E i \in 1..Len(Queue(Exchange)) :
                                         Queue(Exchange)[i].rel_path = f})

\* a forced pass has returned after it updated one file and skipped another
\* that has stored rows and is not on disk
C32_Witness ==
    /\ Handled
    /\ Exchange.payload.kind = "request"
    /\ Exchange.trace.completed
    /\ Forced(Exchange)
    /\ Exchange.trace.stats.files_scanned = 2
    /\ Exchange.trace.stats.files_updated = 1
    /\ \E p \in TrackedSet(RepoOf(Exchange)) :
          /\ ~disk[RepoOf(Exchange)][p].exists
          /\ FileRows(chunks, AfterId(Exchange), p) # {}

(***************************************************************************)
(* Properties of the connection handling, under Spec                       *)
(***************************************************************************)
\* the request of the open connection failed: it could not be read or
\* parsed, or its processing raised
Failed(e) == ~e.resp.success

\* C33: every accepted connection is closed after exactly one
\* request/response attempt, whatever the attempt's outcome.  A connection is
\* open exactly while the daemon reads, processes or answers its request; a
\* request is handled only on a connection that has handled none; the step
\* that follows the handling, successful or failed (the peer closed the
\* connection before the message was complete, the request was malformed, the
\* reconcile pass or the search raised), closes the connection, and closes it
\* after exactly one attempt; the daemon is then back at the head of its loop
\* with no connection open and its running flag as it was.
C33_ClosedAfterOneAttempt ==
    /\ [](/\ (conn # <<>>) <=> (dpc \in {"recv", "send"})
          /\ (dpc = "recv") => (Len(conn) = 1 /\ conn[1].log = <<>>)
          /\ (dpc = "send") => (Len(conn) = 1 /\ Len(conn[1].log) = 1))
    /\ [][/\ (dpc = "recv" /\ dpc' # "recv")
             => (dpc' = "send" /\ Len(conn') = 1 /\ Len(conn'[1].log) = 1
                 /\ running' = running)
          /\ (dpc = "send" /\ dpc' # "send")
             => (conn' = <<>> /\ dpc' = "loop" /\ running' = running
                 /\ socket_file' = socket_file)
          /\ (conn # <<>> /\ conn' # conn)
             => (conn' = <<>> \/ (conn[1].log = <<>> /\ Len(conn') = 1))]_vars

\* the peer closed the connection before its message was complete, and the
\* daemon, still running, is about to close its side
C33_Witness ==
    /\ dpc = "send"
    /\ Len(conn) = 1
    /\ Len(conn[1].log) = 1
    /\ conn[1].log[1].payload.kind = "closed"
    /\ Failed(conn[1].log[1])
    /\ running

(***************************************************************************)
(* Properties of the chunks of Python content, under SpecChunk             *)
(***************************************************************************)
\* the number of source lines of the function or method declared at line i
UnitLength(i) == BodyEnd(i) - i + 1

\* the text of a function or method chunk begins with a class header
HasHeader(text) == text # <<>> /\ text[1].txt = "class"

\* the lines of text that are lines of the unit: all but the class header
UnitPart(text) == IF HasHeader(text) THEN Tail(text) ELSE text

\* text ends with the marker line that counts n lines
EndsWithMarker(text, n) ==
    /\ text # <<>>
    /\ text[Len(text)].txt = "# ... more lines"
    /\ text[Len(text)].tag = n

\* C34: the text of every function or method chunk has at most
\* CHUNK_SIZE_LINES lines, the class header and the marker line counted; a
\* unit of at most CHUNK_SIZE_LINES lines is emitted in full, and a longer
\* one as a prefix of its lines and one marker line that counts the lines of
\* the unit that are not in the prefix.
C34_WithinBudget ==
    (ChunkDone /\ PythonEntry /\ ~Unparseable)
    => \A i \in DefLines : \A k \in ChunksAt(i) :
          LET text == chk.out.chunks[k].text.lines
              unit == UnitPart(text)
          IN /\ Len(text) <= CHUNK_SIZE_LINES
             /\ UnitLength(i) <= CHUNK_SIZE_LINES => Len(unit) = UnitLength(i)
             /\ UnitLength(i) > CHUNK_SIZE_LINES
                => /\ Len(unit) >= 2
                   /\ EndsWithMarker(unit, UnitLength(i) - (Len(unit) - 1))

\* the same with the budget on the lines of the unit and the marker, the
\* class header of a method not counted
UnitWithinBudget ==
    (ChunkDone /\ PythonEntry /\ ~Unparseable)
    => \A i \in DefLines : \A k \in ChunksAt(i) :
          LET text == chk.out.chunks[k].text.lines
              unit == UnitPart(text)
          IN /\ Len(unit) <= CHUNK_SIZE_LINES
             /\ UnitLength(i) > CHUNK_SIZE_LINES => Len(text) <= CHUNK_SIZE_LINES
             /\ UnitLength(i) <= CHUNK_SIZE_LINES => Len(unit) = UnitLength(i)
             /\ UnitLength(i) > CHUNK_SIZE_LINES
                => /\ Len(unit) >= 2
                   /\ EndsWithMarker(unit, UnitLength(i) - (Len(unit) - 1))

\* a method of exactly CHUNK_SIZE_LINES lines has been chunked
FullMethodChunked ==
    /\ ChunkDone /\ PythonEntry /\ ~Unparseable
    /\ \E i \in DefLines : \E k \in ChunksAt(i) :
          /\ UnitLength(i) = CHUNK_SIZE_LINES
          /\ HasHeader(chk.out.chunks[k].text.lines)

\* the class declared at line i has a docstring: the statement that opens
\* its body is a string literal
HasDocstring(i) ==
    /\ i < Len(ContentLines)
    /\ ContentLines[i + 1].txt = LineText("doc")
    /\ ContentLines[i + 1].indent > ContentLines[i].indent

\* the declaration line of the class at line i and the lines of its docstring
Signature(i) ==
    <<ContentLines[i]>> \o (IF HasDocstring(i) THEN <<ContentLines[i + 1]>> ELSE <<>>)

\* C35: every class definition of parseable Python content yields exactly
\* one chunk that starts at the declaration line of the class, and the text
\* of that chunk is the declaration line followed by the lines of the
\* docstring when the class has one: no line of a method or of another
\* statement of the body, with or without a docstring.
C35_ClassSignatureOnly ==
    (ChunkDone /\ PythonEntry /\ ~Unparseable)
    => \A i \in ClassLines :
          /\ Cardinality(ChunksAt(i)) = 1
          /\ \A k \in ChunksAt(i) : chk.out.chunks[k].text.lines = Signature(i)

\* the same for the classes that have a docstring; a class without one still
\* yields exactly one chunk, which begins with the declaration line
ClassSignatureWithDocstring ==
    (ChunkDone /\ PythonEntry /\ ~Unparseable)
    => \A i \in ClassLines :
          /\ Cardinality(ChunksAt(i)) = 1
          /\ \A k \in ChunksAt(i) :
                /\ Head(chk.out.chunks[k].text.lines) = ContentLines[i]
                /\ HasDocstring(i) => chk.out.chunks[k].text.lines = Signature(i)

\* a class with a docstring and a method has been chunked
DocstringClassChunked ==
    /\ ChunkDone /\ PythonEntry /\ ~Unparseable
    /\ \E i \in ClassLines : HasDocstring(i) /\ i + 2 \in DefLines

(***************************************************************************)
(* Two starts of the daemon side by side: each is `scotd start` run        *)
(* directly, or launched by a client whose daemon_status() found no        *)
(* daemon.  cli.proc[p] is the position of start p, cli.pid_file the       *)
(* process PID_FILE names (NoFile when it does not exist, Stale for a      *)
(* process that is gone), cli.socket_path the process whose socket         *)
(* SOCKET_PATH leads to, cli.listening the processes that hold a listening *)
(* socket.                                                                 *)
(***************************************************************************)
Starters == {"p1", "p2"}

NoFile == "none"

Stale == "stale"

\* the process is past os.fork() and has not ended
Alive(q) ==
    q \in Starters
    /\ cli.proc[q] \in {"is_running", "write_pid", "unlink", "bind", "load", "serving"}

InitRace ==
    /\ InitServing
    /\ pass = IdlePass
    /\ rrf = IdleRRF
    /\ srch = IdleSearch
    /\ bm = IdleBM
    /\ chk = IdleChunk
    /\ cli \in {[proc |-> pc, pid_file |-> f, socket_path |-> g, listening |-> {}] :
                   pc \in [Starters -> {"client", "is_running"}],
                   f \in {NoFile, Stale}, g \in {NoFile, Stale}}

\* daemon_status(), daemon.py 250-259 and 219-230: PID_FILE exists and
\* os.kill(pid, 0) finds the process
pid_file_alive == cli.pid_file # NoFile /\ Alive(cli.pid_file)

\* client.py 18-28: ensure_daemon_running returns when daemon_status() is
\* true, else launches `scot.daemon start`
EnsureDaemon(p) ==
    /\ cli.proc[p] = "client"
    /\ cli' = [cli EXCEPT !.proc[p] = IF pid_file_alive THEN "found" ELSE "is_running"]
    /\ UNCHANGED frameRest

\* Daemon.start 31-33 and _is_running 219-230: a live daemon ends the start;
\* a stale PID file is unlinked
IsRunning(p) ==
    /\ cli.proc[p] = "is_running"
    /\ cli' = IF pid_file_alive /\ cli.pid_file # p
              THEN [cli EXCEPT !.proc[p] = "exited"]
              ELSE [cli EXCEPT !.proc[p] = "write_pid", !.pid_file = NoFile]
    /\ UNCHANGED frameRest

\* Daemon._run line 56: PID_FILE.write_text(str(os.getpid()))
WritePidOf(p) ==
    /\ cli.proc[p] = "write_pid"
    /\ cli' = [cli EXCEPT !.proc[p] = "unlink", !.pid_file = p]
    /\ UNCHANGED frameRest

\* Daemon._run lines 63-64: if SOCKET_PATH.exists(): SOCKET_PATH.unlink()
UnlinkSocket(p) ==
    /\ cli.proc[p] = "unlink"
    /\ cli' = [cli EXCEPT !.proc[p] = "bind", !.socket_path = NoFile]
    /\ UNCHANGED frameRest

\* Daemon._run lines 67-70: bind creates SOCKET_PATH, or raises OSError
\* (address already in use) when the path exists, which ends the process
BindSocket(p) ==
    /\ cli.proc[p] = "bind"
    /\ cli' = IF cli.socket_path = NoFile
              THEN [cli EXCEPT !.proc[p] = "load", !.socket_path = p,
                               !.listening = @ \cup {p}]
              ELSE [cli EXCEPT !.proc[p] = "dead"]
    /\ UNCHANGED frameRest

\* Daemon._run lines 75-78: the model is loaded and the loop entered
Loaded(p) ==
    /\ cli.proc[p] = "load"
    /\ cli' = [cli EXCEPT !.proc[p] = "serving"]
    /\ UNCHANGED frameRest

\* SIGTERM in the loop, then _cleanup 210-218: the socket is closed, and
\* SOCKET_PATH and PID_FILE are unlinked if they exist
StopServing(p) ==
    /\ cli.proc[p] = "serving"
    /\ cli' = [cli EXCEPT !.proc[p] = "stopped", !.listening = @ \ {p},
                          !.socket_path = NoFile, !.pid_file = NoFile]
    /\ UNCHANGED frameRest

NextRace ==
    \E p \in Starters :
        \/ EnsureDaemon(p)
        \/ IsRunning(p)
        \/ WritePidOf(p)
        \/ UnlinkSocket(p)
        \/ BindSocket(p)
        \/ Loaded(p)
        \/ StopServing(p)

SpecRace == InitRace /\ [][NextRace]_vars

\* process p took the step
StepOf(p) == cli'.proc[p] # cli.proc[p]

\* C36: at most one daemon process holds a listening socket and serves at
\* any time, also when two starts run side by side; and a step of one start
\* never unlinks, rebinds or overwrites the socket file or the PID file of
\* another daemon that is alive.
C36_OneDaemon ==
    /\ [](Cardinality(cli.listening) <= 1)
    /\ [][\A p \in Starters : \A q \in Starters \ {p} :
             (StepOf(p) /\ Alive(q))
             => /\ cli.socket_path = q => cli'.socket_path = q
                /\ cli.pid_file = q => cli'.pid_file = q]_vars

\* what does hold: a start that runs its check when the PID file names a
\* live daemon ends there and leaves both files alone
StartAfterPidWrittenExits ==
    [][\A p \in Starters :
          (StepOf(p) /\ cli.proc[p] = "is_running" /\ pid_file_alive)
          => /\ cli'.proc[p] = "exited"
             /\ cli'.socket_path = cli.socket_path
             /\ cli'.pid_file = cli.pid_file
             /\ cli'.listening = cli.listening]_vars

\* both starts serve, each with a listening socket of its own, and only one
\* can be reached through SOCKET_PATH
TwoDaemonsServing ==
    /\ \A p \in Starters : cli.proc[p] = "serving"
    /\ cli.listening = Starters

(***************************************************************************)
(* Properties of the stored rows of a file that yields no chunks, under    *)
(* Spec                                                                    *)
(***************************************************************************)
\* the tracked file p had stored rows when the pass of the exchange began,
\* is on disk with a newer modification time, and chunking it yields nothing
Emptied(e, p) ==
    /\ p \in TrackedSet(RepoOf(e))
    /\ disk[RepoOf(e)][p].exists
    /\ FileRows(e.before.chunks, AfterId(e), p) # {}
    /\ disk[RepoOf(e)][p].mtime > get_file_mtime(e.before.chunks, AfterId(e), p)
    /\ NewChunks(e, p) = <<>>

\* C37: after a pass that returned, a tracked file that had stored rows, has
\* a newer modification time and yields no chunks has no stored row left.
C37_EmptiedFileForgotten ==
    \A p \in {APy, BHtml, CMd} :
       (/\ Handled
        /\ Exchange.payload.kind = "request"
        /\ Exchange.trace.reconciled
        /\ Exchange.trace.completed
        /\ Emptied(Exchange, p))
       => FileRows(chunks, AfterId(Exchange), p) = {}

\* what the pass does with such a file: its rows stay as they were
EmptiedFileKeepsRows ==
    \A p \in {APy, BHtml, CMd} :
       (/\ Handled
        /\ Exchange.payload.kind = "request"
        /\ Exchange.trace.reconciled
        /\ Exchange.trace.completed
        /\ Emptied(Exchange, p))
       => FileRows(chunks, AfterId(Exchange), p)
            = FileRows(Exchange.before.chunks, AfterId(Exchange), p)

\* a pass has returned over a file that was emptied
EmptiedFileScanned ==
    /\ Handled
    /\ Exchange.payload.kind = "request"
    /\ Exchange.trace.reconciled
    /\ Exchange.trace.completed
    /\ Emptied(Exchange, APy)

(***************************************************************************)
(* Properties of the last window of line-based chunking, under SpecLines   *)
(***************************************************************************)
\* the line range of chunk k lies within the line range of chunk n
Contained(k, n) ==
    /\ chk.chunks[n].start_line <= chk.chunks[k].start_line
    /\ chk.chunks[k].end_line <= chk.chunks[n].end_line

\* the chunks whose window reaches the last line of the content
Reaching == {k \in 1..Len(chk.chunks) : chk.chunks[k].end_line = NumLines}

\* C38: line-based chunking of content longer than W lines stops with the
\* first window that reaches the last line: one chunk ends at the last line,
\* and no chunk's line range lies within the line range of another chunk.
C38_NoContainedWindow ==
    (chk.pc = "done" /\ NumLines > CHUNK_SIZE_LINES)
    => /\ Cardinality(Reaching) = 1
       /\ \A k, n \in 1..Len(chk.chunks) : k # n => ~Contained(k, n)

\* what does hold: only the last chunk can lie within another one, and only
\* within the chunk before it
OnlyLastWindowContained ==
    (chk.pc = "done" /\ NumLines > CHUNK_SIZE_LINES)
    => /\ Cardinality(Reaching) \in {1, 2}
       /\ \A k, n \in 1..Len(chk.chunks) :
             (k # n /\ Contained(k, n)) => (k = Len(chk.chunks) /\ n = k - 1)

\* content whose second window reaches the last line has got a third window
TrailingWindowEmitted ==
    /\ chk.pc = "done"
    /\ Len(chk.chunks) = 3
    /\ Contained(3, 2)

(***************************************************************************)
(* Properties of the line ranges of the chunks, under SpecChunk            *)
(***************************************************************************)
\* the line range of chunk c lies within content of n lines
InRange(c, n) == 1 <= c.start_line /\ c.start_line <= c.end_line /\ c.end_line <= n

\* C39: every chunk of every chunking mode (function, method and class
\* chunks of Python content, line-based chunks) has
\* 1 <= start_line <= end_line <= the number of lines of the chunked content.
C39_RangesWithinContent ==
    (ChunkDone /\ chk.out.raised = None)
    => \A k \in 1..Len(chk.out.chunks) : InRange(chk.out.chunks[k], Len(ContentLines))

\* what does hold: the ranges of all chunks but the chunks of classes, whose
\* end_line may lie past the last line
RangesWithinContentButClasses ==
    (ChunkDone /\ chk.out.raised = None)
    => \A k \in 1..Len(chk.out.chunks) :
          LET c == chk.out.chunks[k]
          IN /\ 1 <= c.start_line
             /\ c.start_line <= c.end_line
             /\ c.start_line <= Len(ContentLines)
             /\ (c.end_line > Len(ContentLines))
                => (PythonEntry /\ ~Unparseable /\ c.start_line \in ClassLines
                    /\ ~HasDocstring(c.start_line))

\* a class chunk's end_line lies past the last line of the content
ClassChunkPastLastLine ==
    /\ ChunkDone
    /\ chk.out.raised = None
    /\ \E k \in 1..Len(chk.out.chunks) :
          /\ chk.out.chunks[k].start_line \in ClassLines
          /\ chk.out.chunks[k].end_line > Len(ContentLines)

(***************************************************************************)
(* What each kind of request may change, under Spec                        *)
(***************************************************************************)
\* the keys whose cache entry the step adds or replaces
Cached == {k \in DOMAIN bm25_cache' : k \notin DOMAIN bm25_cache \/ bm25_cache'[k] # bm25_cache[k]}

\* C40: a ping, a status request and a request of an unknown action change
\* neither the stored chunks nor the BM25 cache; an index request adds and
\* replaces no cache entry; a cache entry is added or replaced only by a
\* search request without file pattern in lexical or hybrid mode, and only
\* under the key of its repository.
C40_RequestFrame ==
    [][(dpc = "recv" /\ dpc' = "send")
       => /\ (Exchange'.payload.kind = "request"
              /\ Exchange'.payload.request.action \notin {"search", "index"})
             => (chunks' = chunks /\ bm25_cache' = bm25_cache)
          /\ (Exchange'.payload.kind = "request"
              /\ Exchange'.payload.request.action = "index")
             => Cached = {}
          /\ Cached # {}
             => /\ Exchange'.payload.kind = "request"
                /\ Exchange'.payload.request.action = "search"
                /\ Exchange'.payload.request.file_pattern = NoPattern
                /\ Exchange'.payload.request.mode \in {"lexical", "hybrid"}
                /\ Cached = {RepoOf(Exchange')}]_vars

\* an index request has updated a file of a repository whose BM25 index is
\* cached
C40_Witness ==
    /\ Handled
    /\ Exchange.payload.kind = "request"
    /\ Exchange.payload.request.action = "index"
    /\ Exchange.trace.completed
    /\ Exchange.trace.stats.files_updated > 0
    /\ RepoOf(Exchange) \in DOMAIN bm25_cache


====
